---- MODULE Spec2Model ----
(***************************************************************************)
(* Culinary Assistant: the application state of App.tsx (view/navigation,  *)
(* recipe collection, favorites, shopping list) and the part of            *)
(* RecipeDetailView.tsx that feeds the shopping list.                      *)
(*                                                                         *)
(* JavaScript strings that the code inspects character by character        *)
(* (recipe names, ingredient names, the search query) are sequences of     *)
(* one-character strings; strings that are only compared for equality      *)
(* (dietary tags, error messages, file handles) are TLA+ strings.          *)
(***************************************************************************)
EXTENDS Integers, Sequences, FiniteSets, TLC

VARIABLES
    view,                  \* App.tsx:14
    activeTab,             \* App.tsx:15
    uploadedImage,         \* App.tsx:16
    recipes,               \* App.tsx:17
    selectedRecipe,        \* App.tsx:18
    shoppingList,          \* App.tsx:19
    activeFilters,         \* App.tsx:20
    isLoading,             \* App.tsx:21
    error,                 \* App.tsx:22
    searchQuery,           \* App.tsx:23
    favoriteRecipes,       \* App.tsx:24
    sourceRecipes,         \* App.tsx:105  (memoized value)
    filteredRecipes,       \* App.tsx:112  (memoized value)
    uploadPc,              \* position of the async handleImageUpload: "idle" | "awaiting"
    ingredientAvailability,\* RecipeDetailView.tsx:31 (empty while the view is unmounted)
    initialFavorites,      \* the favorites list loaded at startup (never changes)
    toggledOdd,            \* per recipe name: toggled an odd number of times so far
    localStorage,          \* the item 'favoriteRecipes' of window.localStorage
    selectedLanguage,      \* RecipeDetailView.tsx:22
    isTranslating,         \* RecipeDetailView.tsx:23
    translatedContent,     \* RecipeDetailView.tsx:24
    detailRequests,        \* handleTranslation calls waiting at their await
    currentStep,           \* RecipeDetailView.tsx:16
    recognition,           \* the SpeechRecognition object that is listening, if any
    isChatOpen,            \* App.tsx:35
    chatSession,           \* App.tsx:36
    chatMessages,          \* App.tsx:37 (array of references to message objects)
    isBotLoading,          \* App.tsx:38
    messageObjects,        \* the ChatMessage objects the arrays refer to
    chatTurns,             \* handleSendMessage calls waiting at an await
    chatSelectedLanguage,  \* App.tsx:391 (Chatbot selectedLanguage)
    chatIsTranslating,     \* App.tsx:392 (Chatbot isTranslating)
    chatRequests           \* doTranslate calls waiting at their await

\* state of App.tsx outside the chat, with the availability map of the detail view
appVars == <<view, activeTab, uploadedImage, recipes, selectedRecipe, shoppingList,
             activeFilters, isLoading, error, searchQuery, favoriteRecipes,
             sourceRecipes, filteredRecipes, uploadPc, ingredientAvailability,
             initialFavorites, toggledOdd, localStorage>>

\* translation state of RecipeDetailView
detailVars == <<selectedLanguage, isTranslating, translatedContent, detailRequests,
               currentStep, recognition>>

\* chat state of App and Chatbot
chatVars == <<isChatOpen, chatSession, chatMessages, isBotLoading, messageObjects,
              chatTurns, chatSelectedLanguage, chatIsTranslating, chatRequests>>

vars == <<appVars, detailVars, chatVars>>

-----------------------------------------------------------------------------
(* Bounds *)

\* longest favorites list found in local storage at startup
MaxStoredFavorites == 1

-----------------------------------------------------------------------------
(* JavaScript values *)

nullString == "<null>"
nullRecipe == [null |-> TRUE]

Range(s) == {s[i] : i \in DOMAIN s}

\* Array.prototype.includes
includes(arr, x) == \E i \in DOMAIN arr : arr[i] = x

UpperCaseLetters == <<"A","B","C","D","E","F","G","H","I","J","K","L","M",
                      "N","O","P","Q","R","S","T","U","V","W","X","Y","Z">>
LowerCaseLetters == <<"a","b","c","d","e","f","g","h","i","j","k","l","m",
                      "n","o","p","q","r","s","t","u","v","w","x","y","z">>

toLowerCaseChar(c) ==
    IF \E i \in DOMAIN UpperCaseLetters : UpperCaseLetters[i] = c
    THEN LowerCaseLetters[CHOOSE i \in DOMAIN UpperCaseLetters : UpperCaseLetters[i] = c]
    ELSE c

\* String.prototype.toLowerCase
toLowerCase(s) == [i \in 1..Len(s) |-> toLowerCaseChar(s[i])]

WhiteSpace == {" ", "\t", "\n"}

\* String.prototype.trim
RECURSIVE trimStart(_)
trimStart(s) ==
    IF s # <<>> /\ Head(s) \in WhiteSpace THEN trimStart(Tail(s)) ELSE s

RECURSIVE trimEnd(_)
trimEnd(s) ==
    IF s # <<>> /\ s[Len(s)] \in WhiteSpace THEN trimEnd(SubSeq(s, 1, Len(s) - 1)) ELSE s

trim(s) == trimEnd(trimStart(s))

\* String.prototype.includes
strIncludes(s, q) ==
    \E i \in 0..(Len(s) - Len(q)) : SubSeq(s, i + 1, i + Len(q)) = q

-----------------------------------------------------------------------------
(* Data the external services and the user can supply *)

Soup == <<"S","o","u","p">>
Pie  == <<"P","i","e">>
Egg  == <<"e","g","g">>
Salt == <<"S","a","l","t">>

\* constants.ts
DIETARY_OPTIONS == <<"Vegetarian", "Keto", "Gluten-Free", "Vegan", "Dairy-Free">>

\* Recipe values (types.ts).  SoupB has the name of SoupA but other content,
\* and lists the ingredient Salt twice.
SoupA == [name |-> Soup, dietaryTags |-> <<"Vegetarian", "Vegan">>,
          ingredients |-> <<[name |-> Egg, isAvailable |-> TRUE],
                            [name |-> Salt, isAvailable |-> FALSE]>>,
          instructions |-> <<"boil", "serve">>]
SoupB == [name |-> Soup, dietaryTags |-> <<"Keto">>,
          ingredients |-> <<[name |-> Salt, isAvailable |-> TRUE],
                            [name |-> Salt, isAvailable |-> FALSE]>>,
          instructions |-> <<"simmer">>]
PieA  == [name |-> Pie, dietaryTags |-> <<"Vegetarian">>,
          ingredients |-> <<[name |-> Egg, isAvailable |-> FALSE]>>,
          instructions |-> <<"bake">>]

RecipeUniverse == {SoupA, SoupB, PieA}

\* what the awaited analyzeFridgeAndSuggestRecipes call can settle with
AnalysisOutcomes ==
    {[resolved |-> TRUE, value |-> R, isError |-> FALSE, message |-> nullString] :
        R \in {<<>>, <<SoupB>>, <<SoupA, PieA>>, <<PieA, SoupA, SoupB>>}}
    \cup
    {[resolved |-> FALSE, value |-> <<>>, isError |-> TRUE, message |-> m] :
        m \in {"The AI couldn't generate recipes from the image.",
               "Could not connect to the recipe service."}}

Files == {"fridge.jpg"}

\* dietary options the user toggles
FilterInputs == {DIETARY_OPTIONS[1], DIETARY_OPTIONS[4]}

IngredientUniverse == {Egg, Salt}

Names(list) == {list[i].name : i \in DOMAIN list}

RecipeNames == {r.name : r \in RecipeUniverse}


-----------------------------------------------------------------------------
(* Recipe analysis: geminiService.ts, analyzeFridgeAndSuggestRecipes.
   Response texts are sequences of characters; the characters A, B and P
   stand for the JSON texts of the recipes SoupA, SoupB and PieA. *)

\* String.prototype.startsWith, endsWith
startsWith(s, prefix) == Len(s) >= Len(prefix) /\ SubSeq(s, 1, Len(prefix)) = prefix
endsWith(s, suffix) ==
    Len(s) >= Len(suffix) /\ SubSeq(s, Len(s) - Len(suffix) + 1, Len(s)) = suffix

\* String.prototype.slice(start, end) for start >= 0 and end < 0
slice(s, start, end) ==
    LET from == IF start > Len(s) THEN Len(s) ELSE start
        to == IF Len(s) + end < 0 THEN 0 ELSE Len(s) + end
    IN  IF from >= to THEN <<>> ELSE SubSeq(s, from + 1, to)

\* the grave accent U+0060, which a TLA+ string cannot hold
graveAccent == "U+0060"

fence == <<graveAccent, graveAccent, graveAccent>>

\* the trim and the two fence cases in front of JSON.parse
stripFence(text) ==
    LET jsonText == trim(text)
    IN  IF startsWith(jsonText, fence \o <<"j", "s", "o", "n">>) THEN trim(slice(jsonText, 7, -3))
        ELSE IF startsWith(jsonText, fence) THEN trim(slice(jsonText, 3, -3))
        ELSE jsonText

\* JSON.parse on the texts of the model: an array of recipe letters
\* separated by commas, the object {} and the number 1 are JSON; any other
\* text is a SyntaxError. White space is allowed around the value.
JSONparse(text) ==
    LET t == trim(text)
        inner == SubSeq(t, 2, Len(t) - 1)
    IN  IF t = <<"{", "}">> \/ t = <<"1">>
        THEN [ok |-> TRUE, isArray |-> FALSE, value |-> <<>>]
        ELSE IF /\ Len(t) >= 2 /\ t[1] = "[" /\ t[Len(t)] = "]"
                /\ (inner = <<>> \/ Len(inner) % 2 = 1)
                /\ \A i \in DOMAIN inner :
                      IF i % 2 = 1 THEN inner[i] \in {"A", "B", "P"} ELSE inner[i] = ","
        THEN [ok |-> TRUE, isArray |-> TRUE,
              value |-> [k \in 1..((Len(inner) + 1) \div 2) |->
                           IF inner[2 * k - 1] = "A" THEN SoupA
                           ELSE IF inner[2 * k - 1] = "B" THEN SoupB ELSE PieA]]
        ELSE [ok |-> FALSE, isArray |-> FALSE, value |-> <<>>]

IsJSONArray(text) == JSONparse(text).ok /\ JSONparse(text).isArray

returns(value) == [resolved |-> TRUE, value |-> value, isError |-> FALSE, message |-> nullString]
throws(message) == [resolved |-> FALSE, value |-> <<>>, isError |-> TRUE, message |-> message]

\* variant of analyzeFridgeAndSuggestRecipes without the bracket check
analyzeFridgeAndSuggestRecipesUnchecked(response) ==
    IF response.failed THEN throws("Could not connect to the recipe service.")
    ELSE IF response.text = <<>>
    THEN throws("The image was blocked due to safety settings.")
    ELSE IF ~JSONparse(stripFence(response.text)).ok
    THEN throws("The AI's recipe list was not in the expected format.")
    ELSE returns(JSONparse(stripFence(response.text)).value)

\* what analyzeFridgeAndSuggestRecipes settles with for a response of
\* generateContent; the messages are those the catch block lets through or
\* puts in place (the empty-response message contains 'safety')
analyzeFridgeAndSuggestRecipes(response) ==
    IF response.failed THEN throws("Could not connect to the recipe service.")
    ELSE IF response.text = <<>>
    THEN throws("The image was blocked due to safety settings.")
    ELSE IF \/ ~startsWith(stripFence(response.text), <<"[">>)
            \/ ~endsWith(stripFence(response.text), <<"]">>)
    THEN throws("The AI couldn't generate recipes from the image.")
    ELSE IF ~JSONparse(stripFence(response.text)).ok
    THEN throws("The AI's recipe list was not in the expected format.")
    ELSE returns(JSONparse(stripFence(response.text)).value)

\* bodies of responses: arrays, JSON that is not an array, and texts that
\* are not JSON
ResponseBodies ==
    {<<"[", "A", ",", "P", "]">>, <<"[", "B", "]">>, <<"[", "]">>,
     <<"{", "}">>, <<"1">>, <<"[", "A">>, <<"[", "n", "]">>, <<"n", "o">>}

\* language tags behind an opening fence
FenceTags == {<<>>, <<"j", "s", "o", "n">>, <<"J", "S", "O", "N">>, <<"j", "s">>}

fenced(tag, body) == fence \o tag \o <<"\n">> \o body \o <<"\n">> \o fence

textResponse(text) == [failed |-> FALSE, text |-> text]

\* what generateContent can answer: a failed call, no text, a body, a body
\* in white space, a fenced body
AnalysisResponses ==
    {[failed |-> TRUE, text |-> <<>>], textResponse(<<>>)}
    \cup {textResponse(body) : body \in ResponseBodies}
    \cup {textResponse(<<" ">> \o body \o <<"\n">>) : body \in ResponseBodies}
    \cup {textResponse(fenced(tag, body)) : tag \in FenceTags, body \in ResponseBodies}

-----------------------------------------------------------------------------
(* Favorites in local storage: App.tsx:24-32, 41-47 *)

\* what getItem returns: null, or the text that was stored
storedText(text) == [present |-> TRUE, text |-> text]

letterOfRecipe(r) == IF r = SoupA THEN "A" ELSE IF r = SoupB THEN "B" ELSE "P"

RECURSIVE joined(_)
joined(list) ==
    IF list = <<>> THEN <<>>
    ELSE IF Len(list) = 1 THEN <<letterOfRecipe(list[1])>>
    ELSE <<letterOfRecipe(list[1]), ",">> \o joined(Tail(list))

\* JSON.stringify of an array of recipes
JSONstringify(list) == <<"[">> \o joined(list) \o <<"]">>

\* the initializer of favoriteRecipes (24-32): null and '' are falsy, a
\* SyntaxError is caught, and every value JSON.parse returns is the state
favoritesInitializer(savedFavorites) ==
    IF ~savedFavorites.present \/ savedFavorites.text = <<>> THEN <<>>
    ELSE IF ~JSONparse(savedFavorites.text).ok THEN <<>>
    ELSE IF JSONparse(savedFavorites.text).isArray THEN JSONparse(savedFavorites.text).value
    ELSE [json |-> trim(savedFavorites.text)]

\* the item after the persistence effect of the first render (41-47):
\* JSON.stringify of what the initializer returned
persistedAtStartup(savedFavorites) ==
    IF /\ savedFavorites.present
       /\ JSONparse(savedFavorites.text).ok
       /\ ~JSONparse(savedFavorites.text).isArray
    THEN storedText(trim(savedFavorites.text))
    ELSE storedText(JSONstringify(favoritesInitializer(savedFavorites)))

\* items the application itself has written in an earlier session: every
\* list the toggle handler builds has pairwise distinct names
WrittenItems ==
    {storedText(JSONstringify(f)) :
        f \in {g \in UNION {[1..n -> RecipeUniverse] : n \in 0..MaxStoredFavorites} :
                  \A i, j \in DOMAIN g : g[i].name = g[j].name => i = j}}

\* items found at startup: none, written by the application, the empty
\* text, texts that are not JSON, JSON that is not an array
StoredItems ==
    {[present |-> FALSE, text |-> <<>>]} \cup WrittenItems
    \cup {storedText(text) : text \in {<<>>, <<"[", "A">>, <<"n", "o">>, <<"{", "}">>, <<"1">>}}

\* favoriteRecipes holds an array (the item is rewritten from it on every
\* change, so the item tells)
favoritesIsArray == localStorage.present /\ IsJSONArray(localStorage.text)

-----------------------------------------------------------------------------
(* Derived recipe view: App.tsx:105-131 *)

\* the value computed by the sourceRecipes memo
computeSourceRecipes(tab, recs, favs) ==
    IF tab = "favorites" THEN favs ELSE recs

\* variant of dietFiltered with some() in place of every()
dietFilteredAnyTag(source, filters) ==
    IF Len(filters) = 0
    THEN source
    ELSE LET keep(recipe) ==
                 \E i \in DOMAIN filters : includes(recipe.dietaryTags, filters[i])
         IN  SelectSeq(source, keep)

\* first half of the filteredRecipes memo: dietary options
dietFiltered(source, filters) ==
    IF Len(filters) = 0
    THEN source
    ELSE LET keep(recipe) ==
                 \A i \in DOMAIN filters : includes(recipe.dietaryTags, filters[i])
         IN  SelectSeq(source, keep)

\* variant of searchFiltered that compares the recipe's names as written
searchFilteredCaseSensitive(list, rawQuery) ==
    LET query == trim(toLowerCase(rawQuery))
        keep(recipe) ==
            LET nameMatch == strIncludes(recipe.name, query)
                ingredientMatch ==
                    \E i \in DOMAIN recipe.ingredients :
                        strIncludes(recipe.ingredients[i].name, query)
            IN  nameMatch \/ ingredientMatch
    IN  IF query = <<>> THEN list ELSE SelectSeq(list, keep)

\* second half of the filteredRecipes memo: search query
searchFiltered(list, rawQuery) ==
    LET query == trim(toLowerCase(rawQuery))
        keep(recipe) ==
            LET nameMatch == strIncludes(toLowerCase(recipe.name), query)
                ingredientMatch ==
                    \E i \in DOMAIN recipe.ingredients :
                        strIncludes(toLowerCase(recipe.ingredients[i].name), query)
            IN  nameMatch \/ ingredientMatch
    IN  IF query = <<>> THEN list ELSE SelectSeq(list, keep)

computeFilteredRecipes(source, filters, rawQuery) ==
    searchFiltered(dietFiltered(source, filters), rawQuery)

\* variant of sourceDepsChanged whose dependency list lacks favoriteRecipes
sourceDepsChangedNoFavorites ==
    <<activeTab', recipes'>> # <<activeTab, recipes>>

\* dependency lists of the two memos: a memo is recomputed on a render
\* exactly when one of its dependencies changed since the previous render
sourceDepsChanged ==
    <<activeTab', recipes', favoriteRecipes'>> # <<activeTab, recipes, favoriteRecipes>>

filteredDepsChanged ==
    <<sourceRecipes', activeFilters', searchQuery'>> # <<sourceRecipes, activeFilters, searchQuery>>

\* the render that follows every state update, with the effect that saves
\* the favorites when they changed (41-47)
Render ==
    /\ localStorage' =
          IF favoriteRecipes' # favoriteRecipes
          THEN storedText(JSONstringify(favoriteRecipes'))
          ELSE localStorage
    /\ sourceRecipes' =
          IF sourceDepsChanged
          THEN computeSourceRecipes(activeTab', recipes', favoriteRecipes')
          ELSE sourceRecipes
    /\ filteredRecipes' =
          IF filteredDepsChanged
          THEN computeFilteredRecipes(sourceRecipes', activeFilters', searchQuery')
          ELSE filteredRecipes

-----------------------------------------------------------------------------
(* RecipeDetailView: ingredient availability *)

\* new Map(recipe.ingredients.map(i => [i.name, i.isAvailable])): for a name
\* that occurs more than once the last entry wins
initialAvailability(recipe) ==
    [n \in {recipe.ingredients[i].name : i \in DOMAIN recipe.ingredients} |->
        LET last == CHOOSE i \in DOMAIN recipe.ingredients :
                        /\ recipe.ingredients[i].name = n
                        /\ \A j \in DOMAIN recipe.ingredients :
                              recipe.ingredients[j].name = n => j <= i
        IN  recipe.ingredients[last].isAvailable]

unmounted == [n \in {} |-> TRUE]

missingIngredientNames(recipe, availability) ==
    LET missing(ing) == ~availability[ing.name]
        kept == SelectSeq(recipe.ingredients, missing)
    IN  [i \in 1..Len(kept) |-> kept[i].name]

-----------------------------------------------------------------------------
(* State updaters *)

\* variant of addItems that appends the items without looking at the list
addItemsUnfiltered(prev, items) == prev \o items

\* variant of addItems that puts the new items in front of the list
addItemsInFront(prev, items) ==
    LET isNew(item) == ~includes(prev, item)
        newItems == SelectSeq(items, isNew)
    IN  newItems \o prev

\* addToShoppingList's updater
addItems(prev, items) ==
    LET isNew(item) == ~includes(prev, item)
        newItems == SelectSeq(items, isNew)
    IN  prev \o newItems

\* removeFromShoppingList's updater
removeItem(prev, itemToRemove) ==
    LET other(item) == item # itemToRemove
    IN  SelectSeq(prev, other)

\* variant of toggleFavorite that looks the recipe up by value, not by name
toggleFavoriteByValue(prev, recipeToToggle) ==
    LET isFavorited == includes(prev, recipeToToggle)
        otherName(recipe) == recipe.name # recipeToToggle.name
    IN  IF isFavorited
        THEN SelectSeq(prev, otherName)
        ELSE Append(prev, recipeToToggle)

\* variant of toggleFavorite whose removal keeps the matching entries
toggleFavoriteKeepsMatch(prev, recipeToToggle) ==
    LET isFavorited == \E i \in DOMAIN prev : prev[i].name = recipeToToggle.name
        sameName(recipe) == recipe.name = recipeToToggle.name
    IN  IF isFavorited
        THEN SelectSeq(prev, sameName)
        ELSE Append(prev, recipeToToggle)

\* handleToggleFavorite's updater
toggleFavorite(prev, recipeToToggle) ==
    LET isFavorited == \E i \in DOMAIN prev : prev[i].name = recipeToToggle.name
        otherName(recipe) == recipe.name # recipeToToggle.name
    IN  IF isFavorited
        THEN SelectSeq(prev, otherName)
        ELSE Append(prev, recipeToToggle)

\* handleFilterChange's updater
toggleFilter(prev, f) ==
    LET other(g) == g # f
    IN  IF includes(prev, f) THEN SelectSeq(prev, other) ELSE Append(prev, f)

-----------------------------------------------------------------------------
(* Translation service: geminiService.ts translateTexts *)

\* codes of TRANSLATION_LANGUAGES (constants.ts)
TRANSLATION_LANGUAGES == <<"en", "es", "fr", "de", "hi", "zh", "ja", "ar", "ru", "si", "ta">>

\* languages the user picks in the language selects
LanguageInputs == {TRANSLATION_LANGUAGES[1], TRANSLATION_LANGUAGES[2]}

\* what lines 119-133 of translateTexts end with: an exception (the call, a
\* missing text or JSON.parse fails) or the parsed JSON value
callFails == [threw |-> TRUE, isArray |-> FALSE, items |-> <<>>]
arrayOf(items) == [threw |-> FALSE, isArray |-> TRUE, items |-> items]

\* variant of translateTexts without the length check
translateTextsAnyLength(texts, parsed) ==
    IF Len(texts) = 0 THEN <<>>
    ELSE IF parsed.threw THEN texts
    ELSE IF ~parsed.isArray THEN texts
    ELSE parsed.items

\* the value translateTexts resolves with; it never rejects
translateTexts(texts, parsed) ==
    IF Len(texts) = 0 THEN <<>>
    ELSE IF parsed.threw THEN texts
    ELSE IF ~parsed.isArray \/ Len(parsed.items) # Len(texts) THEN texts
    ELSE parsed.items

\* a translation of a name or chat text (sequences) and of an instruction (string)
translatedName(lang, name) == <<lang>> \o name
translatedStep(lang, step) == lang \o ":" \o step

\* replies of the service to a request whose faithful translation is good:
\* failures, a non-array, one item too few, the translation, and the
\* translation with an empty string in first place
ParsedReplies(good, blank) ==
    {callFails, [threw |-> FALSE, isArray |-> FALSE, items |-> <<>>],
     arrayOf(SubSeq(good, 1, Len(good) - 1)),
     arrayOf(good),
     arrayOf([good EXCEPT ![1] = blank])}

-----------------------------------------------------------------------------
(* RecipeDetailView: translation, RecipeDetailView.tsx:22-24, 50-51, 63-103 *)

\* most handleTranslation calls in flight at a time
MaxDetailRequests == 2

noTranslations == [l \in {} |-> TRUE]

ingredientNamesOf(recipe) == [i \in DOMAIN recipe.ingredients |-> recipe.ingredients[i].name]

notReturned == [done |-> FALSE, value |-> <<>>]

\* a handleTranslation call at its await: the language and recipe it closed
\* over, whether its component is still mounted, and the two batch results
newDetailRequest(lang, recipe) ==
    [lang |-> lang, recipe |-> recipe, live |-> TRUE,
     ingredients |-> notReturned, instructions |-> notReturned]

\* the texts of one batch of a request
batchTexts(req, batch) ==
    IF batch = "ingredients" THEN ingredientNamesOf(req.recipe) ELSE req.recipe.instructions

\* replies the service can give to one batch of a request
DetailReplies(req, batch) ==
    IF batch = "ingredients"
    THEN ParsedReplies([i \in DOMAIN req.recipe.ingredients |->
                           translatedName(req.lang, req.recipe.ingredients[i].name)], <<>>)
    ELSE ParsedReplies([i \in DOMAIN req.recipe.instructions |->
                           translatedStep(req.lang, req.recipe.instructions[i])], "")

\* the two replies that matter to the caller of one batch: the call fails,
\* or the service returns the translation of every text
FailedOrTranslated(req, batch) ==
    {callFails,
     arrayOf(IF batch = "ingredients"
             THEN [i \in DOMAIN req.recipe.ingredients |->
                      translatedName(req.lang, req.recipe.ingredients[i].name)]
             ELSE [i \in DOMAIN req.recipe.instructions |->
                      translatedStep(req.lang, req.recipe.instructions[i])])}

\* the early return of handleTranslation (lines 65-70)
\* variant of translationNeeded without the test for 'en'
translationNeededAnyLanguage(lang, content) ==
    /\ lang \notin DOMAIN content
    /\ includes(TRANSLATION_LANGUAGES, lang)

translationNeeded(lang, content) ==
    /\ lang # "en"
    /\ lang \notin DOMAIN content
    /\ includes(TRANSLATION_LANGUAGES, lang)

\* lines 80-91: the entry built from the two batch results
translatedEntry(recipe, names, steps) ==
    [ingredients |->
        [k \in DOMAIN recipe.ingredients |->
            [name |-> IF k \in DOMAIN names /\ names[k] # <<>>
                      THEN names[k] ELSE recipe.ingredients[k].name,
             isAvailable |-> recipe.ingredients[k].isAvailable]],
     instructions |-> steps]

\* variant of withEntry that files the entry under the language selected
\* when the result arrives
withEntryForSelectedLanguage(content, lang, entry) ==
    [l \in DOMAIN content \cup {selectedLanguage} |->
        IF l = selectedLanguage THEN entry ELSE content[l]]

withEntry(content, lang, entry) ==
    [l \in DOMAIN content \cup {lang} |-> IF l = lang THEN entry ELSE content[l]]

withoutRequest(reqs, i) ==
    [k \in 1..(Len(reqs) - 1) |-> IF k < i THEN reqs[k] ELSE reqs[k + 1]]

\* a state update of a component that has been unmounted is dropped
orphaned(reqs) == [k \in DOMAIN reqs |-> [reqs[k] EXCEPT !.live = FALSE]]

\* variant of updateReachesView for a cache that outlives the component
updateReachesViewAlways(req) == TRUE

\* App.tsx:336-345: the view a request belongs to is still the mounted one
updateReachesView(req) == req.live

\* variant of allBatchesReturned that goes on after the first result
allBatchesReturnedFirst(req, batch) == TRUE

\* Promise.all (line 75): the await ends with the result that completes the pair
allBatchesReturned(req, batch) ==
    IF batch = "ingredients" THEN req.instructions.done ELSE req.ingredients.done

\* lines 50-51
displayedIngredients ==
    IF selectedLanguage \in DOMAIN translatedContent
    THEN translatedContent[selectedLanguage].ingredients
    ELSE selectedRecipe.ingredients

displayedInstructions ==
    IF selectedLanguage \in DOMAIN translatedContent
    THEN translatedContent[selectedLanguage].instructions
    ELSE selectedRecipe.instructions

\* Voice commands, RecipeDetailView.tsx:143-178, 194-207.  At most one
\* SpeechRecognition object is listening: start is called only while
\* isListening is false, and isListening becomes false when the object ends.
\* current: the object is recognitionRef.current, whose onresult holds the
\* handlers of the latest render; otherwise the effect has replaced and
\* stopped it, and its onresult holds handlers that closed over step.
notListening == [listening |-> FALSE, current |-> FALSE, step |-> 0]

\* RecipeDetailView.tsx:17, as far as it is set by start and onend
isListening == recognition.listening

\* the effect of lines 143-175 runs again: its cleanup stops the object of
\* the previous run, which keeps its onresult, and a new object is created
replaced(rec) == IF rec.listening THEN [rec EXCEPT !.current = FALSE] ELSE rec

\* handleNextStep and handlePrevStep (127-141) as created in a render with
\* currentStep = closed and length instructions, applied to the state prev
nextStep(closed, length, prev) == IF closed < length - 1 THEN prev + 1 ELSE prev
prevStep(closed, prev) == IF closed > 0 THEN prev - 1 ELSE prev

Next_ == <<"n", "e", "x", "t">>
Previous == <<"p", "r", "e", "v", "i", "o", "u", "s">>
Back == <<"b", "a", "c", "k">>

\* recognition.onresult (156-161): both tests are made, and both updates
\* are queued
onresult(spoken, closed, length, prev) ==
    LET transcript == toLowerCase(trim(spoken))
        afterNext == IF strIncludes(transcript, Next_)
                     THEN nextStep(closed, length, prev) ELSE prev
    IN  IF strIncludes(transcript, Previous) \/ strIncludes(transcript, Back)
        THEN prevStep(closed, afterNext) ELSE afterNext

\* what the user can say
Utterances ==
    {<<"N", "e", "x", "t", " ">>, <<"g", "o", " ">> \o Back, Previous, <<"h", "m">>,
     Next_ \o <<" ">> \o Back}

\* the component state is created on mount and lost on unmount; calls still
\* in flight stay in flight
DetailStateDiscarded ==
    /\ selectedLanguage' = "en"
    /\ isTranslating' = FALSE
    /\ translatedContent' = noTranslations
    /\ detailRequests' = orphaned(detailRequests)
    /\ currentStep' = 0
    /\ recognition' = notListening

DetailInit ==
    /\ selectedLanguage = "en"
    /\ isTranslating = FALSE
    /\ translatedContent = noTranslations
    /\ detailRequests = <<>>
    /\ currentStep = 0
    /\ recognition = notListening

-----------------------------------------------------------------------------
(* Chat: App.tsx:35-38, 50-73 *)

greeting == <<"Hi!">>
notStarted == <<"Sorry, the chatbot could not be started.">>

newMessage(role, text) ==
    [role |-> role, text |-> text, translations |-> noTranslations, groundingChunks |-> FALSE]

\* bounds of the chat: message objects ever created (an apology may still
\* come on top), chunks of one reply, doTranslate calls in flight
MaxMessages == 3
MaxChunks == 2
MaxChatRequests == 2

\* texts are sequences of the pieces they were put together from
UserInputs == {<<"q">>}
ChunkTexts == {"a"}
apology == <<"Sorry, I'm having trouble connecting right now.">>

\* the elements of a set of numbers in ascending order
ascending(I) ==
    [k \in 1..Cardinality(I) |-> CHOOSE i \in I : Cardinality({j \in I : j < i}) = k - 1]

\* Chatbot, lines 408-413: positions of the messages without a translation
indicesToTranslate(lang, messages, objects) ==
    ascending({i \in DOMAIN messages : lang \notin DOMAIN objects[messages[i]].translations})

\* the early returns of the effect and of doTranslate (lines 405, 415-418)
chatTranslationNeeded(lang, isOpen, messages, objects) ==
    /\ lang # "en"
    /\ Len(messages) > 0
    /\ isOpen
    /\ indicesToTranslate(lang, messages, objects) # <<>>
    /\ includes(TRANSLATION_LANGUAGES, lang)

\* a doTranslate call at its await: the language and the messages array it
\* closed over, the positions it translates and the texts it sent
newChatRequest(lang, messages, objects) ==
    LET indices == indicesToTranslate(lang, messages, objects)
    IN  [lang |-> lang, messages |-> messages, indices |-> indices,
         texts |-> [k \in DOMAIN indices |-> objects[messages[indices[k]]].text]]

\* replies of the service to a doTranslate call; it may also echo the texts
ChatReplies(req) ==
    ParsedReplies([k \in DOMAIN req.texts |-> translatedName(req.lang, req.texts[k])], <<>>)
        \cup {arrayOf(req.texts)}

\* lines 427-435: the message objects after the forEach over the result
withTranslations(objects, req, translatedTexts) ==
    [id \in DOMAIN objects |->
        LET hits == {k \in DOMAIN translatedTexts :
                        /\ k \in DOMAIN req.indices
                        /\ req.messages[req.indices[k]] = id
                        /\ translatedTexts[k] # <<>>
                        /\ translatedTexts[k] # objects[id].text}
        IN  IF hits = {} THEN objects[id]
            ELSE [objects[id] EXCEPT !.translations =
                     withEntry(@, req.lang, translatedTexts[CHOOSE k \in hits : TRUE])]]

\* line 484
displayedText(objects, id, lang) ==
    IF lang \in DOMAIN objects[id].translations /\ objects[id].translations[lang] # <<>>
    THEN objects[id].translations[lang]
    ELSE objects[id].text

\* a handleSendMessage call inside its try: the locals of lines 185-187, and
\* the message object its first chunk created (0 before the first chunk)
newTurn == [firstChunk |-> TRUE, fullResponse |-> <<>>, chunks |-> 0, message |-> 0]

\* initChat, with chats.create returning or throwing
ChatInit(started) ==
    /\ isChatOpen = FALSE
    /\ chatSession = started
    /\ messageObjects = <<newMessage("model", IF started THEN greeting ELSE notStarted)>>
    /\ chatMessages = <<1>>
    /\ isBotLoading = FALSE
    /\ chatTurns = <<>>
    /\ chatSelectedLanguage = "en"
    /\ chatIsTranslating = FALSE
    /\ chatRequests = <<>>

-----------------------------------------------------------------------------
(* Initial state: App.tsx:14-38 *)

\* the state after the first render, given the item found in local storage
AppInitFrom(savedFavorites) ==
    /\ localStorage = persistedAtStartup(savedFavorites)
    /\ view = "upload"
    /\ activeTab = "recipes"
    /\ uploadedImage = nullString
    /\ recipes = <<>>
    /\ selectedRecipe = nullRecipe
    /\ shoppingList = <<>>
    /\ activeFilters = <<>>
    /\ isLoading = FALSE
    /\ error = nullString
    /\ searchQuery = <<>>
    /\ favoriteRecipes = favoritesInitializer(savedFavorites)
    /\ sourceRecipes = computeSourceRecipes(activeTab, recipes, favoriteRecipes)
    /\ filteredRecipes = computeFilteredRecipes(sourceRecipes, activeFilters, searchQuery)
    /\ uploadPc = "idle"
    /\ ingredientAvailability = unmounted
    /\ initialFavorites = favoriteRecipes
    /\ toggledOdd = [n \in RecipeNames |-> FALSE]

\* local storage holds what the application has written
AppInit == \E savedFavorites \in WrittenItems : AppInitFrom(savedFavorites)

\* the chat session has been created
Init ==
    /\ AppInit
    /\ DetailInit
    /\ ChatInit(TRUE)

-----------------------------------------------------------------------------
(* What is on screen: App.tsx:235-345 *)

\* the ImageUploader offers the file input only while it is not loading
UploaderShown == view = "upload" /\ ~isLoading

\* recipe cards are rendered for the filtered list on two of the tabs
CardsShown == view = "recipes" /\ activeTab \in {"recipes", "favorites"}

DetailShown == view = "cooking" /\ selectedRecipe # nullRecipe

-----------------------------------------------------------------------------
(* Image upload: App.tsx:75-91 *)

\* handleImageUpload up to its await.  isLoading is true from here until the
\* call settles, so the uploader offers no second upload meanwhile and
\* uploadPc = "idle" follows from UploaderShown.
handleImageUpload(file) ==
    /\ UploaderShown
    /\ uploadPc = "idle"
    /\ uploadedImage' = file
    /\ isLoading' = TRUE
    /\ error' = nullString
    /\ recipes' = <<>>
    /\ uploadPc' = "awaiting"
    /\ UNCHANGED <<view, activeTab, selectedRecipe, shoppingList, activeFilters,
                   searchQuery, favoriteRecipes, ingredientAvailability,
                   initialFavorites, toggledOdd>>
    /\ UNCHANGED <<detailVars, chatVars>>
    /\ Render

\* variant of handleImageUploadSettled that forgets setActiveTab('recipes')
handleImageUploadSettledKeepsTab(outcome) ==
    /\ uploadPc = "awaiting"
    /\ IF outcome.resolved
       THEN /\ recipes' = outcome.value
            /\ view' = "recipes"
            /\ UNCHANGED <<error, activeTab>>
       ELSE /\ error' = (IF outcome.isError THEN outcome.message
                         ELSE "An unknown error occurred.")
            /\ view' = "upload"
            /\ UNCHANGED <<recipes, activeTab>>
    /\ isLoading' = FALSE
    /\ uploadPc' = "idle"
    /\ UNCHANGED <<uploadedImage, selectedRecipe, shoppingList, activeFilters,
                   searchQuery, favoriteRecipes, ingredientAvailability,
                   initialFavorites, toggledOdd>>
    /\ UNCHANGED <<detailVars, chatVars>>
    /\ Render

\* variant of handleImageUploadSettled without the finally block
handleImageUploadSettledStaysLoading(outcome) ==
    /\ uploadPc = "awaiting"
    /\ IF outcome.resolved
       THEN /\ recipes' = outcome.value
            /\ view' = "recipes"
            /\ activeTab' = "recipes"
            /\ UNCHANGED error
       ELSE /\ error' = (IF outcome.isError THEN outcome.message
                         ELSE "An unknown error occurred.")
            /\ view' = "upload"
            /\ UNCHANGED <<recipes, activeTab>>
    /\ UNCHANGED isLoading
    /\ uploadPc' = "idle"
    /\ UNCHANGED <<uploadedImage, selectedRecipe, shoppingList, activeFilters,
                   searchQuery, favoriteRecipes, ingredientAvailability,
                   initialFavorites, toggledOdd>>
    /\ UNCHANGED <<detailVars, chatVars>>
    /\ Render

\* handleImageUpload after its await: try / catch / finally
handleImageUploadSettled(outcome) ==
    /\ uploadPc = "awaiting"
    /\ IF outcome.resolved
       THEN /\ recipes' = outcome.value
            /\ view' = "recipes"
            /\ activeTab' = "recipes"
            /\ UNCHANGED error
       ELSE /\ error' = (IF outcome.isError THEN outcome.message
                         ELSE "An unknown error occurred.")
            /\ view' = "upload"
            /\ UNCHANGED <<recipes, activeTab>>
    /\ isLoading' = FALSE
    /\ uploadPc' = "idle"
    /\ UNCHANGED <<uploadedImage, selectedRecipe, shoppingList, activeFilters,
                   searchQuery, favoriteRecipes, ingredientAvailability,
                   initialFavorites, toggledOdd>>
    /\ UNCHANGED <<detailVars, chatVars>>
    /\ Render

\* generateContent answers and analyzeFridgeAndSuggestRecipes settles
\* accordingly
generateContentReturns(response) ==
    handleImageUploadSettled(analyzeFridgeAndSuggestRecipes(response))

-----------------------------------------------------------------------------
(* Filters, tabs, search: App.tsx:93-103, 270-301 *)

handleFilterChange(f) ==
    /\ view = "recipes"
    /\ activeFilters' = toggleFilter(activeFilters, f)
    /\ UNCHANGED <<view, activeTab, uploadedImage, recipes, selectedRecipe,
                   shoppingList, isLoading, error, searchQuery, favoriteRecipes,
                   uploadPc, ingredientAvailability, initialFavorites, toggledOdd>>
    /\ UNCHANGED <<detailVars, chatVars>>
    /\ Render

handleClearFilters ==
    /\ view = "recipes"
    /\ activeFilters' = <<>>
    /\ UNCHANGED <<view, activeTab, uploadedImage, recipes, selectedRecipe,
                   shoppingList, isLoading, error, searchQuery, favoriteRecipes,
                   uploadPc, ingredientAvailability, initialFavorites, toggledOdd>>
    /\ UNCHANGED <<detailVars, chatVars>>
    /\ Render

setActiveTab(tab) ==
    /\ view = "recipes"
    /\ activeTab' = tab
    /\ UNCHANGED <<view, uploadedImage, recipes, selectedRecipe, shoppingList,
                   activeFilters, isLoading, error, searchQuery, favoriteRecipes,
                   uploadPc, ingredientAvailability, initialFavorites, toggledOdd>>
    /\ UNCHANGED <<detailVars, chatVars>>
    /\ Render

setSearchQuery(text) ==
    /\ CardsShown
    /\ searchQuery' = text
    /\ UNCHANGED <<view, activeTab, uploadedImage, recipes, selectedRecipe,
                   shoppingList, activeFilters, isLoading, error, favoriteRecipes,
                   uploadPc, ingredientAvailability, initialFavorites, toggledOdd>>
    /\ UNCHANGED <<detailVars, chatVars>>
    /\ Render

-----------------------------------------------------------------------------
(* Navigation: App.tsx:134-142, 166-173 *)

\* a click on the i-th displayed card; the detail view mounts with the
\* availability map of the recipe (RecipeDetailView.tsx:31-33)
handleSelectRecipe(i) ==
    /\ CardsShown
    /\ i \in DOMAIN filteredRecipes
    /\ selectedRecipe' = filteredRecipes[i]
    /\ view' = "cooking"
    /\ ingredientAvailability' = initialAvailability(filteredRecipes[i])
    /\ UNCHANGED <<activeTab, uploadedImage, recipes, shoppingList, activeFilters,
                   isLoading, error, searchQuery, favoriteRecipes, uploadPc,
                   initialFavorites, toggledOdd>>
    /\ DetailStateDiscarded
    /\ UNCHANGED chatVars
    /\ Render

\* variant of handleBackToRecipes that forgets setSelectedRecipe(null)
handleBackToRecipesKeepsSelection ==
    /\ DetailShown
    /\ view' = "recipes"
    /\ ingredientAvailability' = unmounted
    /\ UNCHANGED <<activeTab, uploadedImage, recipes, selectedRecipe, shoppingList,
                   activeFilters, isLoading, error, searchQuery, favoriteRecipes,
                   uploadPc, initialFavorites, toggledOdd>>
    /\ DetailStateDiscarded
    /\ UNCHANGED chatVars
    /\ Render

handleBackToRecipes ==
    /\ DetailShown
    /\ selectedRecipe' = nullRecipe
    /\ view' = "recipes"
    /\ ingredientAvailability' = unmounted
    /\ UNCHANGED <<activeTab, uploadedImage, recipes, shoppingList, activeFilters,
                   isLoading, error, searchQuery, favoriteRecipes, uploadPc,
                   initialFavorites, toggledOdd>>
    /\ DetailStateDiscarded
    /\ UNCHANGED chatVars
    /\ Render

\* variant of resetApp that forgets setSearchQuery('')
resetAppKeepsQuery ==
    /\ view' = "upload"
    /\ uploadedImage' = nullString
    /\ recipes' = <<>>
    /\ selectedRecipe' = nullRecipe
    /\ error' = nullString
    /\ ingredientAvailability' = unmounted
    /\ UNCHANGED <<activeTab, shoppingList, activeFilters, isLoading, searchQuery,
                   favoriteRecipes, uploadPc, initialFavorites, toggledOdd>>
    /\ DetailStateDiscarded
    /\ UNCHANGED chatVars
    /\ Render

\* the header title is always clickable
resetApp ==
    /\ view' = "upload"
    /\ uploadedImage' = nullString
    /\ recipes' = <<>>
    /\ selectedRecipe' = nullRecipe
    /\ error' = nullString
    /\ searchQuery' = <<>>
    /\ ingredientAvailability' = unmounted
    /\ UNCHANGED <<activeTab, shoppingList, activeFilters, isLoading,
                   favoriteRecipes, uploadPc, initialFavorites, toggledOdd>>
    /\ DetailStateDiscarded
    /\ UNCHANGED chatVars
    /\ Render

-----------------------------------------------------------------------------
(* Shopping list: App.tsx:144-153, RecipeDetailView.tsx:41-60 *)

handleToggleAvailability(originalIngredientName) ==
    /\ DetailShown
    /\ originalIngredientName \in DOMAIN ingredientAvailability
    /\ ingredientAvailability' =
          [ingredientAvailability EXCEPT ![originalIngredientName] = ~@]
    /\ UNCHANGED <<view, activeTab, uploadedImage, recipes, selectedRecipe,
                   shoppingList, activeFilters, isLoading, error, searchQuery,
                   favoriteRecipes, uploadPc, initialFavorites, toggledOdd>>
    /\ UNCHANGED <<detailVars, chatVars>>
    /\ Render

addToShoppingList(items) ==
    /\ shoppingList' = addItems(shoppingList, items)
    /\ UNCHANGED <<view, activeTab, uploadedImage, recipes, selectedRecipe,
                   activeFilters, isLoading, error, searchQuery, favoriteRecipes,
                   uploadPc, ingredientAvailability, initialFavorites, toggledOdd>>
    /\ UNCHANGED <<detailVars, chatVars>>
    /\ Render

\* the button is rendered only when some ingredient is missing
handleAddMissingIngredients ==
    /\ DetailShown
    /\ Len(missingIngredientNames(selectedRecipe, ingredientAvailability)) > 0
    /\ addToShoppingList(missingIngredientNames(selectedRecipe, ingredientAvailability))

removeFromShoppingList(itemToRemove) ==
    /\ view = "recipes"
    /\ activeTab = "shoppingList"
    /\ includes(shoppingList, itemToRemove)
    /\ shoppingList' = removeItem(shoppingList, itemToRemove)
    /\ UNCHANGED <<view, activeTab, uploadedImage, recipes, selectedRecipe,
                   activeFilters, isLoading, error, searchQuery, favoriteRecipes,
                   uploadPc, ingredientAvailability, initialFavorites, toggledOdd>>
    /\ UNCHANGED <<detailVars, chatVars>>
    /\ Render

-----------------------------------------------------------------------------
(* Favorites: App.tsx:155-164, RecipeCard handleFavoriteClick, detail view *)

handleToggleFavorite(recipeToToggle) ==
    /\ favoriteRecipes' = toggleFavorite(favoriteRecipes, recipeToToggle)
    /\ toggledOdd' = [toggledOdd EXCEPT ![recipeToToggle.name] = ~@]
    /\ UNCHANGED <<view, activeTab, uploadedImage, recipes, selectedRecipe,
                   shoppingList, activeFilters, isLoading, error, searchQuery,
                   uploadPc, ingredientAvailability, initialFavorites>>
    /\ UNCHANGED <<detailVars, chatVars>>
    /\ Render

\* the heart button of the i-th displayed card (recipes tab or favorites tab)
handleFavoriteClick(i) ==
    /\ CardsShown
    /\ i \in DOMAIN filteredRecipes
    /\ handleToggleFavorite(filteredRecipes[i])

\* the favorite button of the detail view (RecipeDetailView.tsx:247)
detailToggleFavorite ==
    /\ DetailShown
    /\ handleToggleFavorite(selectedRecipe)

-----------------------------------------------------------------------------

MaxCards == Cardinality(RecipeUniverse)

-----------------------------------------------------------------------------
(* RecipeDetailView: language selection and the translation effect *)

\* variant of setSelectedLanguage in which the availability map is built
\* anew, as it is when the recipe changes (35-38)
setSelectedLanguageResetsAvailability(lang) ==
    /\ DetailShown
    /\ lang # selectedLanguage
    /\ selectedLanguage' = lang
    /\ IF translationNeeded(lang, translatedContent)
       THEN /\ Len(detailRequests) < MaxDetailRequests
            /\ isTranslating' = TRUE
            /\ detailRequests' = Append(detailRequests, newDetailRequest(lang, selectedRecipe))
       ELSE UNCHANGED <<isTranslating, detailRequests>>
    /\ recognition' = replaced(recognition)
    /\ UNCHANGED currentStep
    /\ ingredientAvailability' = initialAvailability(selectedRecipe)
    /\ UNCHANGED <<view, activeTab, uploadedImage, recipes, selectedRecipe, shoppingList,
                   activeFilters, isLoading, error, searchQuery, favoriteRecipes,
                   sourceRecipes, filteredRecipes, uploadPc, initialFavorites,
                   toggledOdd, localStorage>>
    /\ UNCHANGED <<translatedContent, chatVars>>

\* the select's onChange (line 232) and the effect run it triggers (63-103)
setSelectedLanguage(lang) ==
    /\ DetailShown
    /\ lang # selectedLanguage
    /\ selectedLanguage' = lang
    /\ IF translationNeeded(lang, translatedContent)
       THEN /\ Len(detailRequests) < MaxDetailRequests
            /\ isTranslating' = TRUE
            /\ detailRequests' = Append(detailRequests, newDetailRequest(lang, selectedRecipe))
       ELSE UNCHANGED <<isTranslating, detailRequests>>
    /\ recognition' = replaced(recognition)
    /\ UNCHANGED currentStep
    /\ UNCHANGED <<translatedContent, appVars, chatVars>>

\* one translateTexts call of request i resolves; with the second one the
\* await of line 75 ends and lines 80-101 run, then the effect runs again
\* because translatedContent changed
translationBatchReturns(i, batch, parsed) ==
    /\ i \in DOMAIN detailRequests
    /\ batch \in {"ingredients", "instructions"}
    /\ ~detailRequests[i][batch].done
    /\ parsed \in DetailReplies(detailRequests[i], batch)
    /\ LET req == detailRequests[i]
           result == translateTexts(batchTexts(req, batch), parsed)
           returned == [req EXCEPT ![batch] = [done |-> TRUE, value |-> result]]
           rest == withoutRequest(detailRequests, i)
           content == withEntry(translatedContent, req.lang,
                          translatedEntry(req.recipe, returned.ingredients.value,
                                          returned.instructions.value))
       IN IF ~allBatchesReturned(req, batch)
          THEN /\ detailRequests' = [detailRequests EXCEPT ![i] = returned]
               /\ UNCHANGED <<selectedLanguage, isTranslating, translatedContent>>
          ELSE IF ~updateReachesView(req)
          THEN /\ detailRequests' = rest
               /\ UNCHANGED <<selectedLanguage, isTranslating, translatedContent>>
          ELSE /\ translatedContent' = content
               /\ UNCHANGED selectedLanguage
               /\ IF translationNeeded(selectedLanguage, content)
                  THEN /\ isTranslating' = TRUE
                       /\ detailRequests' =
                              Append(rest, newDetailRequest(selectedLanguage, selectedRecipe))
                  ELSE /\ isTranslating' = FALSE
                       /\ detailRequests' = rest
    /\ UNCHANGED <<currentStep, recognition>>
    /\ UNCHANGED <<appVars, chatVars>>

\* the Next button (371) and handleNextStep; when currentStep changes the
\* handlers are created anew and the recognition effect runs again
handleNextStep ==
    /\ DetailShown
    /\ currentStep' = nextStep(currentStep, Len(displayedInstructions), currentStep)
    /\ currentStep' # currentStep
    /\ recognition' = replaced(recognition)
    /\ UNCHANGED <<selectedLanguage, isTranslating, translatedContent, detailRequests>>
    /\ UNCHANGED <<appVars, chatVars>>

\* the Prev button (356) and handlePrevStep
handlePrevStep ==
    /\ DetailShown
    /\ currentStep' = prevStep(currentStep, currentStep)
    /\ currentStep' # currentStep
    /\ recognition' = replaced(recognition)
    /\ UNCHANGED <<selectedLanguage, isTranslating, translatedContent, detailRequests>>
    /\ UNCHANGED <<appVars, chatVars>>

\* the microphone button while not listening (194-207); while listening it
\* calls stop, after which the object still delivers its result and ends
handleToggleListening ==
    /\ DetailShown
    /\ ~isListening
    /\ recognition' = [listening |-> TRUE, current |-> TRUE, step |-> currentStep]
    /\ UNCHANGED <<selectedLanguage, isTranslating, translatedContent, detailRequests,
                   currentStep>>
    /\ UNCHANGED <<appVars, chatVars>>

\* the listening object delivers its result (156-161) and ends (168-170);
\* stop makes it return what it has heard so far, so a replaced object
\* delivers too, to the handlers it was created with
recognitionResult(spoken) ==
    /\ DetailShown
    /\ isListening
    /\ currentStep' =
          onresult(spoken, IF recognition.current THEN currentStep ELSE recognition.step,
                   Len(displayedInstructions), currentStep)
    /\ recognition' = notListening
    /\ UNCHANGED <<selectedLanguage, isTranslating, translatedContent, detailRequests>>
    /\ UNCHANGED <<appVars, chatVars>>

\* the upload that leads to the detail views: two recipes with different
\* numbers of ingredients and of instructions
DetailOutcome ==
    [resolved |-> TRUE, value |-> <<SoupA, PieA>>, isError |-> FALSE, message |-> nullString]

-----------------------------------------------------------------------------
(* Chat: App.tsx:175-225 and Chatbot, App.tsx:373-546 *)

\* the run of the translation effect (404-446) after a render in which the
\* language, the messages array or isOpen changed; requests and translating
\* are chatRequests and isTranslating as the handler left them
chatTranslationEffect(requests, translating) ==
    IF chatTranslationNeeded(chatSelectedLanguage', isChatOpen', chatMessages', messageObjects')
    THEN /\ Len(requests) < MaxChatRequests
         /\ chatRequests' = Append(requests,
                newChatRequest(chatSelectedLanguage', chatMessages', messageObjects'))
         /\ chatIsTranslating' = TRUE
    ELSE /\ chatRequests' = requests
         /\ chatIsTranslating' = translating

\* the floating button (357-366)
openChat ==
    /\ ~isChatOpen
    /\ chatSession
    /\ isChatOpen' = TRUE
    /\ UNCHANGED <<chatSession, chatMessages, isBotLoading, messageObjects, chatTurns,
                   chatSelectedLanguage>>
    /\ chatTranslationEffect(chatRequests, chatIsTranslating)
    /\ UNCHANGED <<appVars, detailVars>>

\* onClose (350)
closeChat ==
    /\ isChatOpen
    /\ isChatOpen' = FALSE
    /\ UNCHANGED <<chatSession, chatMessages, isBotLoading, messageObjects, chatTurns,
                   chatSelectedLanguage>>
    /\ chatTranslationEffect(chatRequests, chatIsTranslating)
    /\ UNCHANGED <<appVars, detailVars>>

\* the language select of the chat (463-472)
setChatLanguage(lang) ==
    /\ isChatOpen
    /\ lang # chatSelectedLanguage
    /\ chatSelectedLanguage' = lang
    /\ UNCHANGED <<isChatOpen, chatSession, chatMessages, isBotLoading, messageObjects,
                   chatTurns>>
    /\ chatTranslationEffect(chatRequests, chatIsTranslating)
    /\ UNCHANGED <<appVars, detailVars>>

\* variant of handleSendMessage without the early return of line 176
handleSendMessageWithoutSession(message) ==
    /\ UNCHANGED <<chatSession, chatSelectedLanguage>>
    /\ Len(messageObjects) < MaxMessages
    /\ messageObjects' = Append(messageObjects, newMessage("user", message))
    /\ chatMessages' = Append(chatMessages, Len(messageObjects) + 1)
    /\ isBotLoading' = TRUE
    /\ chatTurns' = Append(chatTurns, newTurn)
    /\ chatTranslationEffect(chatRequests, chatIsTranslating)
    /\ UNCHANGED <<appVars, detailVars>>

\* variant of handleSendMessage that appends the user message without its text
handleSendMessageNoText(message) ==
    /\ UNCHANGED <<chatSession, chatSelectedLanguage>>
    /\ IF ~chatSession
       THEN /\ UNCHANGED <<messageObjects, chatMessages, isBotLoading, chatTurns>>
            /\ IF isChatOpen' # isChatOpen
               THEN chatTranslationEffect(chatRequests, chatIsTranslating)
               ELSE UNCHANGED <<chatRequests, chatIsTranslating>>
       ELSE /\ Len(messageObjects) < MaxMessages
            /\ messageObjects' = Append(messageObjects, newMessage("user", <<>>))
            /\ chatMessages' = Append(chatMessages, Len(messageObjects) + 1)
            /\ isBotLoading' = TRUE
            /\ chatTurns' = Append(chatTurns, newTurn)
            /\ chatTranslationEffect(chatRequests, chatIsTranslating)
    /\ UNCHANGED <<appVars, detailVars>>

\* handleSendMessage up to its await (176-183); the caller says what becomes
\* of isChatOpen. Without a session nothing is set, and the effect runs only
\* if the caller changed isChatOpen
handleSendMessage(message) ==
    /\ UNCHANGED <<chatSession, chatSelectedLanguage>>
    /\ IF ~chatSession
       THEN /\ UNCHANGED <<messageObjects, chatMessages, isBotLoading, chatTurns>>
            /\ IF isChatOpen' # isChatOpen
               THEN chatTranslationEffect(chatRequests, chatIsTranslating)
               ELSE UNCHANGED <<chatRequests, chatIsTranslating>>
       ELSE /\ Len(messageObjects) < MaxMessages
            /\ messageObjects' = Append(messageObjects, newMessage("user", message))
            /\ chatMessages' = Append(chatMessages, Len(messageObjects) + 1)
            /\ isBotLoading' = TRUE
            /\ chatTurns' = Append(chatTurns, newTurn)
            /\ chatTranslationEffect(chatRequests, chatIsTranslating)
    /\ UNCHANGED <<appVars, detailVars>>

\* the form of the chat (449-455, 531-541)
handleSubmit(message) ==
    /\ isChatOpen
    /\ ~isBotLoading
    /\ UNCHANGED isChatOpen
    /\ handleSendMessage(message)

\* prompts of the buttons of the recipe view (RecipeDetailView.tsx:276, 330)
AskPrompts == {<<"p">>}

\* askChatbot (227-233), from the social-links and substitute buttons
askChatbot(prompt) ==
    /\ DetailShown
    /\ isChatOpen' = TRUE
    /\ handleSendMessage(prompt)

\* one pass of the for-await loop (188-203)
streamChunk(t, chunk) ==
    /\ t \in DOMAIN chatTurns
    /\ chatTurns[t].chunks < MaxChunks
    /\ LET turn == chatTurns[t]
           fullResponse == Append(turn.fullResponse, chunk)
           last == chatMessages[Len(chatMessages)]
       IN  IF turn.firstChunk
           THEN /\ Len(messageObjects) < MaxMessages
                /\ messageObjects' = Append(messageObjects, newMessage("model", fullResponse))
                /\ chatMessages' = Append(chatMessages, Len(messageObjects) + 1)
                /\ chatTurns' = [chatTurns EXCEPT ![t] =
                       [firstChunk |-> FALSE, fullResponse |-> fullResponse,
                        chunks |-> turn.chunks + 1, message |-> Len(messageObjects) + 1]]
           ELSE /\ messageObjects' = [messageObjects EXCEPT ![last].text = fullResponse]
                /\ chatMessages' = chatMessages
                /\ chatTurns' = [chatTurns EXCEPT ![t] =
                       [turn EXCEPT !.fullResponse = fullResponse, !.chunks = turn.chunks + 1]]
    /\ UNCHANGED <<isChatOpen, chatSession, isBotLoading, chatSelectedLanguage>>
    /\ chatTranslationEffect(chatRequests, chatIsTranslating)
    /\ UNCHANGED <<appVars, detailVars>>

\* the stream ends (205-217, 223); grounded: the last chunk carries
\* grounding chunks
streamEnds(t, grounded) ==
    /\ t \in DOMAIN chatTurns
    /\ grounded => chatTurns[t].chunks > 0
    /\ UNCHANGED <<isChatOpen, chatSession, chatSelectedLanguage>>
    /\ LET last == chatMessages[Len(chatMessages)]
       IN  IF grounded
           THEN /\ messageObjects' =
                      IF messageObjects[last].role = "model"
                      THEN [messageObjects EXCEPT ![last].groundingChunks = TRUE]
                      ELSE messageObjects
                /\ chatMessages' = chatMessages
                /\ chatTranslationEffect(chatRequests, chatIsTranslating)
           ELSE UNCHANGED <<messageObjects, chatMessages, chatRequests, chatIsTranslating>>
    /\ isBotLoading' = FALSE
    /\ chatTurns' = withoutRequest(chatTurns, t)
    /\ UNCHANGED <<appVars, detailVars>>

\* variant of streamFails whose catch appends nothing
streamFailsSilently(t) ==
    /\ t \in DOMAIN chatTurns
    /\ UNCHANGED <<messageObjects, chatMessages>>
    /\ isBotLoading' = FALSE
    /\ chatTurns' = withoutRequest(chatTurns, t)
    /\ UNCHANGED <<isChatOpen, chatSession, chatSelectedLanguage>>
    /\ UNCHANGED <<chatRequests, chatIsTranslating>>
    /\ UNCHANGED <<appVars, detailVars>>

\* sendMessageStream or the stream throws (219-224)
streamFails(t) ==
    /\ t \in DOMAIN chatTurns
    /\ Len(messageObjects) <= MaxMessages
    /\ messageObjects' = Append(messageObjects, newMessage("model", apology))
    /\ chatMessages' = Append(chatMessages, Len(messageObjects) + 1)
    /\ isBotLoading' = FALSE
    /\ chatTurns' = withoutRequest(chatTurns, t)
    /\ UNCHANGED <<isChatOpen, chatSession, chatSelectedLanguage>>
    /\ chatTranslationEffect(chatRequests, chatIsTranslating)
    /\ UNCHANGED <<appVars, detailVars>>

\* the translateTexts call of doTranslate call r resolves (423-444): the
\* translations are written into the message objects, the array the call
\* closed over becomes the messages, and the effect runs again
chatTranslationReturns(r, parsed) ==
    /\ r \in DOMAIN chatRequests
    /\ parsed \in ChatReplies(chatRequests[r])
    /\ LET req == chatRequests[r]
       IN  /\ messageObjects' =
                 withTranslations(messageObjects, req, translateTexts(req.texts, parsed))
           /\ chatMessages' = req.messages
    /\ UNCHANGED <<isChatOpen, chatSession, isBotLoading, chatTurns, chatSelectedLanguage>>
    /\ chatTranslationEffect(withoutRequest(chatRequests, r), FALSE)
    /\ UNCHANGED <<appVars, detailVars>>

NextChat ==
    \/ openChat
    \/ closeChat
    \/ \E lang \in LanguageInputs : setChatLanguage(lang)
    \/ \E message \in UserInputs : handleSubmit(message)
    \/ \E t \in DOMAIN chatTurns, chunk \in ChunkTexts : streamChunk(t, chunk)
    \/ \E t \in DOMAIN chatTurns, grounded \in BOOLEAN : streamEnds(t, grounded)
    \/ \E t \in DOMAIN chatTurns : streamFails(t)
    \/ \E r \in DOMAIN chatRequests :
          \E parsed \in ChatReplies(chatRequests[r]) : chatTranslationReturns(r, parsed)

\* no favorites in localStorage
InitNoFavorites == Init /\ favoriteRecipes = <<>>

SpecChat == InitNoFavorites /\ [][NextChat]_vars

\* the stream of a turn in flight ends or fails
TurnSettles ==
    \E t \in DOMAIN chatTurns :
        streamFails(t) \/ \E grounded \in BOOLEAN : streamEnds(t, grounded)

\* the chat with streams that do not stay open forever
SpecChatFair == SpecChat /\ WF_vars(TurnSettles)

\* the turns of the chat, started from the form or from the recipe view's
\* buttons, whether or not the session could be created; the chat stays in
\* English
InitAnyChat ==
    /\ AppInit
    /\ favoriteRecipes = <<>>
    /\ DetailInit
    /\ \E started \in BOOLEAN : ChatInit(started)

NextAsk ==
    \/ \E file \in Files : handleImageUpload(file)
    \/ handleImageUploadSettled(DetailOutcome)
    \/ \E i \in 1..MaxCards : handleSelectRecipe(i)
    \/ handleBackToRecipes
    \/ \E prompt \in AskPrompts : askChatbot(prompt)
    \/ openChat
    \/ closeChat
    \/ \E message \in UserInputs : handleSubmit(message)
    \/ \E t \in DOMAIN chatTurns, chunk \in ChunkTexts : streamChunk(t, chunk)
    \/ \E t \in DOMAIN chatTurns, grounded \in BOOLEAN : streamEnds(t, grounded)
    \/ \E t \in DOMAIN chatTurns : streamFails(t)

SpecAsk == InitAnyChat /\ [][NextAsk]_vars

\* upload and analysis down to the text of the response
NextAnalysis ==
    \/ \E file \in Files : handleImageUpload(file)
    \/ \E response \in AnalysisResponses : generateContentReturns(response)
    \/ \E f \in FilterInputs : handleFilterChange(f)
    \/ \E tab \in {"recipes", "favorites", "shoppingList"} : setActiveTab(tab)
    \/ \E i \in 1..MaxCards : handleSelectRecipe(i)
    \/ handleBackToRecipes
    \/ resetApp

SpecAnalysis == InitNoFavorites /\ [][NextAnalysis]_vars

\* the page is loaded again: every component state starts over, the calls
\* in flight are gone, and favoriteRecipes is read from local storage
restart ==
    /\ favoriteRecipes' = favoritesInitializer(localStorage)
    /\ localStorage' = persistedAtStartup(localStorage)
    /\ view' = "upload"
    /\ activeTab' = "recipes"
    /\ uploadedImage' = nullString
    /\ recipes' = <<>>
    /\ selectedRecipe' = nullRecipe
    /\ shoppingList' = <<>>
    /\ activeFilters' = <<>>
    /\ isLoading' = FALSE
    /\ error' = nullString
    /\ searchQuery' = <<>>
    /\ sourceRecipes' = <<>>
    /\ filteredRecipes' = <<>>
    /\ uploadPc' = "idle"
    /\ ingredientAvailability' = unmounted
    /\ initialFavorites' = favoriteRecipes'
    /\ toggledOdd' = [n \in RecipeNames |-> FALSE]
    /\ selectedLanguage' = "en"
    /\ isTranslating' = FALSE
    /\ translatedContent' = noTranslations
    /\ detailRequests' = <<>>
    /\ currentStep' = 0
    /\ recognition' = notListening
    /\ isChatOpen' = FALSE
    /\ chatSession' = TRUE
    /\ messageObjects' = <<newMessage("model", greeting)>>
    /\ chatMessages' = <<1>>
    /\ isBotLoading' = FALSE
    /\ chatTurns' = <<>>
    /\ chatSelectedLanguage' = "en"
    /\ chatIsTranslating' = FALSE
    /\ chatRequests' = <<>>

\* startup with any item in local storage
InitStorage ==
    /\ \E savedFavorites \in StoredItems : AppInitFrom(savedFavorites)
    /\ DetailInit
    /\ ChatInit(TRUE)

\* what the user does with the favorites between two loads of the page
NextFavorites ==
    \/ \E file \in Files : handleImageUpload(file)
    \/ handleImageUploadSettled(DetailOutcome)
    \/ \E tab \in {"recipes", "favorites"} : setActiveTab(tab)
    \/ \E i \in 1..MaxCards : handleFavoriteClick(i)
    \/ \E i \in 1..MaxCards : handleSelectRecipe(i)
    \/ detailToggleFavorite
    \/ handleBackToRecipes
    \/ resetApp

\* with a favoriteRecipes that is not an array the first render that uses
\* it throws (App.tsx:279, 313, 341); the model follows such a run no further
NextStorage ==
    \/ restart
    \/ favoritesIsArray /\ NextFavorites

SpecStorage == InitStorage /\ [][NextStorage]_vars

\* chats.create has thrown (66-70)
InitNoSession ==
    /\ AppInit
    /\ favoriteRecipes = <<>>
    /\ DetailInit
    /\ ChatInit(FALSE)

\* the application without a chat session: upload, navigation, favorites
\* and shopping list, and what is left of the chat
NextNoSession ==
    \/ \E file \in Files : handleImageUpload(file)
    \/ handleImageUploadSettled(DetailOutcome)
    \/ \E tab \in {"recipes", "favorites", "shoppingList"} : setActiveTab(tab)
    \/ \E i \in 1..MaxCards : handleSelectRecipe(i)
    \/ handleBackToRecipes
    \/ resetApp
    \/ handleAddMissingIngredients
    \/ \E item \in IngredientUniverse : removeFromShoppingList(item)
    \/ \E i \in 1..MaxCards : handleFavoriteClick(i)
    \/ detailToggleFavorite
    \/ \E prompt \in AskPrompts : askChatbot(prompt)
    \/ \E message \in UserInputs : handleSubmit(message)
    \/ closeChat
    \/ \E lang \in LanguageInputs : setChatLanguage(lang)
    \/ \E r \in DOMAIN chatRequests :
          \E parsed \in ChatReplies(chatRequests[r]) : chatTranslationReturns(r, parsed)

SpecNoSession == InitNoSession /\ [][NextNoSession]_vars

NextDetail ==
    \/ \E file \in Files : handleImageUpload(file)
    \/ handleImageUploadSettled(DetailOutcome)
    \/ \E i \in 1..MaxCards : handleSelectRecipe(i)
    \/ handleBackToRecipes
    \/ resetApp
    \/ \E lang \in LanguageInputs : setSelectedLanguage(lang)
    \/ \E i \in DOMAIN detailRequests, batch \in {"ingredients", "instructions"} :
          \E parsed \in DetailReplies(detailRequests[i], batch) :
             translationBatchReturns(i, batch, parsed)

SpecDetail == InitNoFavorites /\ [][NextDetail]_vars

\* the detail view of the first recipe with three languages to choose from
NextSwitch ==
    \/ \E file \in Files : handleImageUpload(file)
    \/ handleImageUploadSettled(DetailOutcome)
    \/ handleSelectRecipe(1)
    \/ handleBackToRecipes
    \/ \E lang \in {TRANSLATION_LANGUAGES[k] : k \in 1..3} : setSelectedLanguage(lang)
    \/ \E i \in DOMAIN detailRequests, batch \in {"ingredients", "instructions"} :
          \E parsed \in FailedOrTranslated(detailRequests[i], batch) :
             translationBatchReturns(i, batch, parsed)

SpecSwitch == InitNoFavorites /\ [][NextSwitch]_vars

\* cooking mode: steps by button and by voice, with language changes and
\* translations
NextSteps ==
    \/ \E file \in Files : handleImageUpload(file)
    \/ handleImageUploadSettled(DetailOutcome)
    \/ \E i \in 1..MaxCards : handleSelectRecipe(i)
    \/ handleBackToRecipes
    \/ handleNextStep
    \/ handlePrevStep
    \/ handleToggleListening
    \/ \E spoken \in Utterances : recognitionResult(spoken)
    \/ \E lang \in LanguageInputs : setSelectedLanguage(lang)
    \/ \E i \in DOMAIN detailRequests, batch \in {"ingredients", "instructions"} :
          \E parsed \in FailedOrTranslated(detailRequests[i], batch) :
             translationBatchReturns(i, batch, parsed)

SpecSteps == InitNoFavorites /\ [][NextSteps]_vars

\* a translateTexts call of the chat settles: the service answers or the
\* call fails, and translateTexts returns either way
TranslationReturns ==
    \E r \in DOMAIN chatRequests :
       \E parsed \in ChatReplies(chatRequests[r]) : chatTranslationReturns(r, parsed)

SpecChatTranslationFair == SpecChat /\ WF_vars(TranslationReturns)

\* the detail view with its check boxes, its shopping-list button and its
\* translations
NextAvailability ==
    \/ \E file \in Files : handleImageUpload(file)
    \/ handleImageUploadSettled(DetailOutcome)
    \/ \E i \in 1..MaxCards : handleSelectRecipe(i)
    \/ handleBackToRecipes
    \/ \E n \in IngredientUniverse : handleToggleAvailability(n)
    \/ handleAddMissingIngredients
    \/ \E lang \in LanguageInputs : setSelectedLanguage(lang)
    \/ \E i \in DOMAIN detailRequests, batch \in {"ingredients", "instructions"} :
          \E parsed \in FailedOrTranslated(detailRequests[i], batch) :
             translationBatchReturns(i, batch, parsed)

SpecAvailability == InitNoFavorites /\ [][NextAvailability]_vars

\* uploads that succeed or fail, in an application that has favorites, a
\* shopping list, filters and a chat
UploadResponses ==
    {[failed |-> TRUE, text |-> <<>>], textResponse(<<>>), textResponse(<<"{", "}">>),
     textResponse(<<"[", "n", "]">>), textResponse(<<"[", "A", ",", "P", "]">>)}

NextUpload ==
    \/ \E file \in Files : handleImageUpload(file)
    \/ \E response \in UploadResponses : generateContentReturns(response)
    \/ \E f \in FilterInputs : handleFilterChange(f)
    \/ \E i \in 1..MaxCards : handleSelectRecipe(i)
    \/ handleAddMissingIngredients
    \/ detailToggleFavorite
    \/ resetApp
    \/ openChat
    \/ \E message \in UserInputs : handleSubmit(message)
    \/ \E t \in DOMAIN chatTurns : streamFails(t)

SpecUpload == InitNoFavorites /\ [][NextUpload]_vars

\* the two consumers of translateTexts side by side: the detail view and
\* the chat with its greeting
NextTranslation ==
    \/ \E file \in Files : handleImageUpload(file)
    \/ handleImageUploadSettled(DetailOutcome)
    \/ \E i \in 1..MaxCards : handleSelectRecipe(i)
    \/ handleBackToRecipes
    \/ \E lang \in LanguageInputs : setSelectedLanguage(lang)
    \/ \E i \in DOMAIN detailRequests, batch \in {"ingredients", "instructions"} :
          \E parsed \in FailedOrTranslated(detailRequests[i], batch) :
             translationBatchReturns(i, batch, parsed)
    \/ openChat
    \/ closeChat
    \/ \E lang \in LanguageInputs : setChatLanguage(lang)
    \/ \E r \in DOMAIN chatRequests :
          \E parsed \in ChatReplies(chatRequests[r]) : chatTranslationReturns(r, parsed)

SpecTranslation == InitNoFavorites /\ [][NextTranslation]_vars

Next ==
    \/ \E file \in Files : handleImageUpload(file)
    \/ \E outcome \in AnalysisOutcomes : handleImageUploadSettled(outcome)
    \/ \E f \in FilterInputs : handleFilterChange(f)
    \/ handleClearFilters
    \/ \E tab \in {"recipes", "favorites", "shoppingList"} : setActiveTab(tab)
    \/ \E text \in {<<>>, <<" ">>, <<"s","O">>, <<" ","p">>, <<"G","g">>} :
          setSearchQuery(text)
    \/ \E i \in 1..MaxCards : handleSelectRecipe(i)
    \/ handleBackToRecipes
    \/ resetApp
    \/ \E n \in IngredientUniverse : handleToggleAvailability(n)
    \/ handleAddMissingIngredients
    \/ \E item \in IngredientUniverse : removeFromShoppingList(item)
    \/ \E i \in 1..MaxCards : handleFavoriteClick(i)
    \/ detailToggleFavorite

Spec == Init /\ [][Next]_vars

-----------------------------------------------------------------------------
(* Vocabulary of the properties *)

\* longest item sequence tried as an argument of add
MaxItems == 2

\* item sequences, repeats included
ItemSequences == UNION {[1..n -> IngredientUniverse] : n \in 0..MaxItems}

\* the entries of list at the positions in I, in the order of list
SubsequenceAt(list, I) ==
    [k \in 1..Cardinality(I) |->
        list[CHOOSE i \in I : Cardinality({j \in I : j < i}) = k - 1]]

\* the source list of the tab that is open
ActiveSource == IF activeTab = "favorites" THEN favoriteRecipes ELSE recipes

NoDuplicates(list) == \A i, j \in DOMAIN list : list[i] = list[j] => i = j

-----------------------------------------------------------------------------
\* C1: when the analysis started by handleImageUpload completes, a success with
\* recipe list R leaves view = recipes, tab = recipes, recipes = R, error =
\* null and loading = false; a failure leaves view = upload, a non-null error,
\* an empty recipe list and loading = false.
UploadCompletionState ==
    [][\A outcome \in AnalysisOutcomes :
          handleImageUploadSettled(outcome) =>
             IF outcome.resolved
             THEN /\ view' = "recipes"
                  /\ activeTab' = "recipes"
                  /\ recipes' = outcome.value
                  /\ error' = nullString
                  /\ isLoading' = FALSE
             ELSE /\ view' = "upload"
                  /\ error' # nullString
                  /\ recipes' = <<>>
                  /\ isLoading' = FALSE]_vars

\* a successful analysis of three recipes has completed (scenario 1)
UploadCompletionWitness ==
    /\ view = "recipes"
    /\ activeTab = "recipes"
    /\ Len(recipes) = 3
    /\ uploadedImage # nullString
    /\ ~isLoading
    /\ uploadPc = "idle"

\* C2: view = cooking exactly when a recipe is selected.
CookingIffSelected ==
    (view = "cooking") <=> (selectedRecipe # nullRecipe)

CookingIffSelectedWitness ==
    /\ view = "cooking"
    /\ selectedRecipe = SoupA
    /\ uploadedImage # nullString

\* C3: resetApp sets view = upload, clears image, recipes, selection, error and
\* search query, and leaves favorites and shopping list unchanged.
ResetClearsAndKeeps ==
    [][resetApp =>
          /\ view' = "upload"
          /\ uploadedImage' = nullString
          /\ recipes' = <<>>
          /\ selectedRecipe' = nullRecipe
          /\ error' = nullString
          /\ searchQuery' = <<>>
          /\ favoriteRecipes' = favoriteRecipes
          /\ shoppingList' = shoppingList]_vars

\* only resetApp clears the image; a non-empty shopping list and favorites
\* list have survived it
ResetClearsAndKeepsWitness ==
    /\ view = "upload"
    /\ uploadedImage = nullString
    /\ recipes = <<>>
    /\ shoppingList # <<>>
    /\ favoriteRecipes # <<>>
    /\ \E n \in RecipeNames : toggledOdd[n]

\* two characters that are the same letter up to case
SameLetter(a, b) ==
    \/ a = b
    \/ \E i \in DOMAIN UpperCaseLetters : {a, b} = {UpperCaseLetters[i], LowerCaseLetters[i]}

\* q occurs in s as a contiguous run, ignoring case
OccursIgnoringCase(q, s) ==
    \E start \in 1..Len(s) :
        /\ start + Len(q) - 1 <= Len(s)
        /\ \A k \in 1..Len(q) : SameLetter(q[k], s[start + k - 1])

\* q occurs, ignoring case, in the name of the recipe or of one of its ingredients
QueryMatches(q, recipe) ==
    \/ OccursIgnoringCase(q, recipe.name)
    \/ \E i \in DOMAIN recipe.ingredients : OccursIgnoringCase(q, recipe.ingredients[i].name)

OnlyWhiteSpace(q) == \A i \in DOMAIN q : q[i] \in WhiteSpace

\* q without its leading and trailing white space
Stripped(q) ==
    LET solid == {i \in DOMAIN q : q[i] \notin WhiteSpace}
    IN  IF solid = {} THEN <<>>
        ELSE SubSeq(q, CHOOSE i \in solid : \A j \in solid : i <= j,
                       CHOOSE i \in solid : \A j \in solid : j <= i)

\* the recipes of sourceRecipes that carry every active filter tag
TagMatches == {i \in DOMAIN sourceRecipes :
                  Range(activeFilters) \subseteq Range(sourceRecipes[i].dietaryTags)}

\* C4: with an empty search query the filtered view is exactly the recipes of
\* the source list whose dietaryTags include every active filter, in the
\* source's order; with no active filter it is the source list.
FilterKeepsExactlyTagSupersets ==
    searchQuery = <<>> =>
        /\ filteredRecipes = SubsequenceAt(sourceRecipes, TagMatches)
        /\ (activeFilters = <<>> => filteredRecipes = sourceRecipes)

\* two filters are active and cut a three-recipe source down to one recipe
FilterKeepsExactlyTagSupersetsWitness ==
    /\ searchQuery = <<>>
    /\ Len(activeFilters) = 2
    /\ Len(sourceRecipes) = 3
    /\ filteredRecipes = <<SoupA>>

\* C5 as stated: the search step is the identity for an empty or
\* all-whitespace query, and otherwise keeps exactly the recipes in which the
\* query itself occurs, ignoring case, in the name or an ingredient name.
SearchKeepsMatchesOfRawQuery ==
    LET list == dietFiltered(sourceRecipes, activeFilters)
    IN  filteredRecipes =
           IF OnlyWhiteSpace(searchQuery)
           THEN list
           ELSE SubsequenceAt(list, {i \in DOMAIN list : QueryMatches(searchQuery, list[i])})

\* C5 (amended): as above, but the query is matched after its leading and
\* trailing white space has been removed.
SearchKeepsMatchesOfTrimmedQuery ==
    LET list == dietFiltered(sourceRecipes, activeFilters)
    IN  filteredRecipes =
           IF OnlyWhiteSpace(searchQuery)
           THEN list
           ELSE SubsequenceAt(list, {i \in DOMAIN list :
                                        QueryMatches(Stripped(searchQuery), list[i])})

\* a mixed-case query keeps the two soups, by name, and drops the pie
SearchKeepsMatchesOfTrimmedQueryWitness ==
    /\ searchQuery = <<"s","O">>
    /\ activeFilters = <<>>
    /\ sourceRecipes = <<PieA, SoupA, SoupB>>
    /\ filteredRecipes = <<SoupA, SoupB>>

\* C6: the displayed list is search(filter(source)) of the current state, the
\* source being the recipe set on the recipes tab and the favorites on the
\* favorites tab; a step that only re-derives the list (tab, filter or query
\* change) changes neither the recipe set nor the favorites.
DisplayedListIsRecomputed ==
    /\ [](activeTab \in {"recipes", "favorites"} =>
             filteredRecipes =
                searchFiltered(dietFiltered(IF activeTab = "recipes" THEN recipes
                                            ELSE favoriteRecipes,
                                            activeFilters),
                               searchQuery))
    /\ [][(/\ \/ activeTab' # activeTab
              \/ activeFilters' # activeFilters
              \/ searchQuery' # searchQuery
           /\ view' = view
           /\ uploadPc' = uploadPc)
          => UNCHANGED <<recipes, favoriteRecipes>>]_vars

\* on the favorites tab, after a toggle changed the favorites, under a filter
\* and a query
DisplayedListIsRecomputedWitness ==
    /\ activeTab = "favorites"
    /\ view = "recipes"
    /\ favoriteRecipes # initialFavorites
    /\ Len(favoriteRecipes) = 2
    /\ activeFilters # <<>>
    /\ searchQuery # <<>>
    /\ Len(filteredRecipes) = 1

\* C7: toggling the same recipe (matched by name) twice in a row restores the
\* favorites set: the same names are favorites afterwards, and the same
\* recipes when the entries of that name are the toggled recipe itself.
ToggleTwiceRestoresFavorites ==
    \A r \in RecipeUniverse :
        LET twice == toggleFavorite(toggleFavorite(favoriteRecipes, r), r)
        IN  /\ Names(twice) = Names(favoriteRecipes)
            /\ (\A i \in DOMAIN favoriteRecipes :
                    favoriteRecipes[i].name = r.name => favoriteRecipes[i] = r)
               => Range(twice) = Range(favoriteRecipes)

\* the stored favorite SoupA was toggled away and back through the card of
\* SoupB, which has the same name
ToggleTwiceRestoresFavoritesWitness ==
    /\ initialFavorites = <<SoupA>>
    /\ favoriteRecipes = <<SoupB>>
    /\ ~toggledOdd[Soup]

NoDuplicateNames(list) == \A i, j \in DOMAIN list : list[i].name = list[j].name => i = j

\* C8 as stated: each name is at most once in favorites, and a name is
\* present exactly when it has been toggled an odd number of times.
FavoritePresentIffToggledOdd ==
    /\ NoDuplicateNames(favoriteRecipes)
    /\ \A n \in RecipeNames : (n \in Names(favoriteRecipes)) <=> toggledOdd[n]

\* C8 (amended): each name is at most once in favorites, and a name's presence
\* differs from its presence in the starting list exactly when it has been
\* toggled an odd number of times.
FavoritePresenceFlipsWithToggleParity ==
    /\ NoDuplicateNames(favoriteRecipes)
    /\ \A n \in RecipeNames :
          (n \in Names(favoriteRecipes)) <=> ((n \in Names(initialFavorites)) # toggledOdd[n])

\* a stored favorite was toggled away and another name toggled in
FavoritePresenceFlipsWithToggleParityWitness ==
    /\ initialFavorites # <<>>
    /\ favoriteRecipes # <<>>
    /\ Names(favoriteRecipes) \cap Names(initialFavorites) = {}
    /\ \A n \in RecipeNames : toggledOdd[n]

\* C9: add(add(L, X), X) = add(L, X) for the shopping list L and every item
\* sequence X.
AddTwiceIsAddOnce ==
    \A X \in ItemSequences :
        addItems(addItems(shoppingList, X), X) = addItems(shoppingList, X)

\* a non-empty list to which some sequence still adds an item
AddTwiceIsAddOnceWitness ==
    /\ shoppingList # <<>>
    /\ \E X \in ItemSequences : Len(addItems(shoppingList, X)) > Len(shoppingList)

\* C10: no string occurs more than once in the shopping list.
ShoppingListHasNoDuplicates == NoDuplicates(shoppingList)


\* list without its entry at position k
WithoutPosition(list, k) ==
    [i \in 1..(Len(list) - 1) |-> IF i < k THEN list[i] ELSE list[i + 1]]

\* C11: remove(item) deletes exactly one occurrence of item, the first exact
\* match, and leaves the other entries and their order unchanged.
RemoveDeletesFirstMatchOnly ==
    [][\A item \in IngredientUniverse :
          removeFromShoppingList(item) =>
             \E k \in DOMAIN shoppingList :
                /\ shoppingList[k] = item
                /\ \A j \in 1..(k - 1) : shoppingList[j] # item
                /\ shoppingList' = WithoutPosition(shoppingList, k)]_vars

\* C12: add(items) keeps every existing entry at its position and appends
\* the items that are not already in the list, in the order given.
AddAppendsNewItemsInOrder ==
    \A X \in ItemSequences :
        LET after == addItems(shoppingList, X)
            fresh == {i \in DOMAIN X : X[i] \notin Range(shoppingList)}
        IN  /\ Len(after) = Len(shoppingList) + Cardinality(fresh)
            /\ SubSeq(after, 1, Len(shoppingList)) = shoppingList
            /\ SubSeq(after, Len(shoppingList) + 1, Len(after)) = SubsequenceAt(X, fresh)

\* a second add has appended Egg behind Salt, and a further add of items of
\* which one is present and one is new is possible
AddAppendsNewItemsInOrderWitness ==
    /\ shoppingList = <<Salt, Egg>>
    /\ \E X \in ItemSequences :
          /\ \E i \in DOMAIN X : X[i] \in Range(shoppingList)
          /\ X # <<>>

-----------------------------------------------------------------------------
(* Properties of the translations *)

Batches == {"ingredients", "instructions"}

\* the reply is not a usable translation of texts
ReplyUnusable(texts, parsed) ==
    parsed.threw \/ ~parsed.isArray \/ Len(parsed.items) # Len(texts)

\* the names of an ingredient list
NamesOf(ingredients) == [k \in DOMAIN ingredients |-> ingredients[k].name]

\* C13: for a non-empty input list and a reply that is not an array of the
\* input's length, or a failed call or parse, translateTexts returns the
\* input list itself.
TranslationFallsBackToInput ==
    \A i \in DOMAIN detailRequests : \A batch \in Batches :
        \A parsed \in DetailReplies(detailRequests[i], batch) :
            LET texts == batchTexts(detailRequests[i], batch)
            IN  (texts # <<>> /\ ReplyUnusable(texts, parsed))
                    => translateTexts(texts, parsed) = texts

\* the ingredient batch of a request for a recipe with two ingredients has
\* come back as the original names
TranslationFallsBackToInputWitness ==
    \E i \in DOMAIN detailRequests :
        /\ Len(detailRequests[i].recipe.ingredients) = 2
        /\ detailRequests[i].ingredients.done
        /\ detailRequests[i].ingredients.value = ingredientNamesOf(detailRequests[i].recipe)

\* C15: when either batch of a recipe translation falls back to the
\* originals, no entry is recorded for the language: every recorded entry
\* holds translated instructions and translated ingredient names.
NoFallbackEntryRecorded ==
    \A lang \in DOMAIN translatedContent :
        /\ translatedContent[lang].instructions # selectedRecipe.instructions
        /\ NamesOf(translatedContent[lang].ingredients) # ingredientNamesOf(selectedRecipe)

\* C16: for each consumer and language at most one translation request is
\* in flight.
AtMostOneRequestInFlightPerLanguage ==
    /\ \A i, j \in DOMAIN detailRequests :
          (/\ detailRequests[i].live /\ detailRequests[j].live
           /\ detailRequests[i].lang = detailRequests[j].lang) => i = j
    /\ \A i, j \in DOMAIN chatRequests :
          chatRequests[i].lang = chatRequests[j].lang => i = j

\* C17: a recorded recipe translation is never written again, and no
\* further request for that recipe and language is issued.
RecordedEntryIsFinal ==
    [][\A lang \in DOMAIN translatedContent :
          selectedRecipe' = selectedRecipe =>
             /\ lang \in DOMAIN translatedContent'
             /\ translatedContent'[lang] = translatedContent[lang]
             /\ Len(detailRequests') > Len(detailRequests) =>
                   detailRequests'[Len(detailRequests')].lang # lang]_vars

\* C19: a result arriving for a view the user has left changes neither the
\* translations nor the ingredients and instructions on display.
LateResultLeavesDisplayUnchanged ==
    [][\A i \in DOMAIN detailRequests : \A batch \in Batches :
          \A parsed \in DetailReplies(detailRequests[i], batch) :
             (~detailRequests[i].live /\ translationBatchReturns(i, batch, parsed)) =>
                 /\ translatedContent' = translatedContent
                 /\ selectedLanguage' = selectedLanguage
                 /\ DetailShown =>
                       /\ displayedIngredients' = displayedIngredients
                       /\ displayedInstructions' = displayedInstructions]_vars

\* Pie is on display in Spanish while a request made for Soup, one batch of
\* it returned, is still in flight
LateResultLeavesDisplayUnchangedWitness ==
    /\ DetailShown
    /\ selectedRecipe = PieA
    /\ selectedLanguage = "es"
    /\ \E i \in DOMAIN detailRequests :
          /\ ~detailRequests[i].live
          /\ detailRequests[i].recipe = SoupA
          /\ detailRequests[i].lang = "es"
          /\ detailRequests[i].ingredients.done

\* C20: an entry is written only by the step in which the second batch of
\* a request returns, and it holds the results of both batches.
PublishedEntryHoldsBothBatches ==
    [][\A lang \in DOMAIN translatedContent' :
          (lang \notin DOMAIN translatedContent
              \/ translatedContent'[lang] # translatedContent[lang]) =>
          \E i \in DOMAIN detailRequests :
             LET req == detailRequests[i]
             IN  /\ req.lang = lang
                 /\ \/ /\ req.ingredients.done
                       /\ \E parsed \in DetailReplies(req, "instructions") :
                             translatedContent'[lang] =
                                translatedEntry(req.recipe, req.ingredients.value,
                                    translateTexts(req.recipe.instructions, parsed))
                    \/ /\ req.instructions.done
                       /\ \E parsed \in DetailReplies(req, "ingredients") :
                             translatedContent'[lang] =
                                translatedEntry(req.recipe,
                                    translateTexts(ingredientNamesOf(req.recipe), parsed),
                                    req.instructions.value)]_vars

\* the Spanish entry of Soup holds both the translated names and the
\* translated instructions
PublishedEntryHoldsBothBatchesWitness ==
    /\ selectedRecipe = SoupA
    /\ "es" \in DOMAIN translatedContent
    /\ translatedContent["es"].instructions =
          <<translatedStep("es", "boil"), translatedStep("es", "serve")>>
    /\ NamesOf(translatedContent["es"].ingredients) =
          <<translatedName("es", Egg), translatedName("es", Salt)>>

\* the message objects a doTranslate call asked translations for
PendingMessages(req) == {req.messages[req.indices[k]] : k \in DOMAIN req.indices}

\* C14: when the service returns fewer items than a chat translation asked
\* for, no translation is recorded on any message, and every message shows
\* what it showed before, the pending ones their original text.
ShortChatReplyRecordsNothing ==
    [][\A r \in DOMAIN chatRequests : \A parsed \in ChatReplies(chatRequests[r]) :
          (/\ parsed.isArray
           /\ Len(parsed.items) < Len(chatRequests[r].texts)
           /\ chatTranslationReturns(r, parsed)) =>
              /\ \A id \in DOMAIN messageObjects :
                    /\ messageObjects'[id].translations = messageObjects[id].translations
                    /\ displayedText(messageObjects', id, chatSelectedLanguage') =
                          displayedText(messageObjects, id, chatSelectedLanguage)
              /\ \A id \in PendingMessages(chatRequests[r]) :
                    chatRequests[r].lang \notin DOMAIN messageObjects[id].translations =>
                       displayedText(messageObjects', id, chatRequests[r].lang) =
                          messageObjects'[id].text]_vars

\* C18: the message of a reply that is still streaming is in no translation
\* request and has no translation entry.
StreamingMessageIsNotTranslated ==
    \A t \in DOMAIN chatTurns :
        chatTurns[t].message # 0 =>
            /\ messageObjects[chatTurns[t].message].translations = noTranslations
            /\ \A r \in DOMAIN chatRequests :
                  chatTurns[t].message \notin PendingMessages(chatRequests[r])

-----------------------------------------------------------------------------
(* Properties of the chat turns *)

\* a call of sendMessage with this text, from the form or from a button
sendMessage(text) == handleSubmit(text) \/ askChatbot(text)

SentTexts == UserInputs \cup AskPrompts

\* the transcript has grown by one user message with this text, and the
\* turn started has processed nothing of the response
UserMessageAppended(text) ==
    /\ Len(chatMessages') = Len(chatMessages) + 1
    /\ SubSeq(chatMessages', 1, Len(chatMessages)) = chatMessages
    /\ messageObjects'[chatMessages'[Len(chatMessages')]] = newMessage("user", text)
    /\ Len(chatTurns') = Len(chatTurns) + 1
    /\ chatTurns'[Len(chatTurns')] = newTurn

\* C21 as stated: every call of sendMessage(text) appends a user message
\* with that text, before any response is processed, in every state.
SendAlwaysAppendsUserMessage ==
    [][\A text \in SentTexts : sendMessage(text) => UserMessageAppended(text)]_vars

\* C21: every call of sendMessage(text) made while the session exists
\* appends a user message with that text before any response is processed;
\* without a session the call leaves the transcript as it is.
SendAppendsUserMessageIfSession ==
    [][\A text \in SentTexts :
          sendMessage(text) =>
             IF chatSession THEN UserMessageAppended(text)
             ELSE UNCHANGED <<chatMessages, messageObjects, chatTurns, isBotLoading>>]_vars

\* a turn has just been started from the recipe view: its user message is
\* the last one and nothing of the response has arrived
SendAppendsUserMessageIfSessionWitness ==
    /\ chatSession
    /\ DetailShown
    /\ chatTurns # <<>>
    /\ chatTurns[Len(chatTurns)] = newTurn
    /\ messageObjects[chatMessages[Len(chatMessages)]] = newMessage("user", <<"p">>)

\* C22: when a turn finishes, by the end of the stream or by a failure,
\* exactly one model message has been appended for it.
OneModelMessagePerTurn ==
    [][\A t \in DOMAIN chatTurns :
          /\ streamFails(t) => chatTurns[t].message = 0
          /\ \A grounded \in BOOLEAN :
                streamEnds(t, grounded) => chatTurns[t].message # 0]_vars

\* C23: the text of the model message created for a turn is the
\* concatenation, in arrival order, of the fragments received so far.
ReplyTextIsConcatenationOfFragments ==
    \A t \in DOMAIN chatTurns :
        chatTurns[t].message # 0 =>
            messageObjects[chatTurns[t].message].text = chatTurns[t].fullResponse

\* C25: the transcript only grows: every step keeps the messages there are,
\* at their positions.
TranscriptIsAppendOnly ==
    [][/\ Len(chatMessages') >= Len(chatMessages)
       /\ SubSeq(chatMessages', 1, Len(chatMessages)) = chatMessages]_vars

\* C26: at most one turn is sending or streaming at any time.
AtMostOneTurnInFlight == Len(chatTurns) <= 1

\* C27: citations are attached only by the step that ends a stream, to a
\* model message, and to the message created for the turn that ends.
CitationsGoToTheTurnsMessage ==
    [][\A id \in DOMAIN messageObjects :
          (messageObjects'[id].groundingChunks /\ ~messageObjects[id].groundingChunks) =>
             /\ messageObjects[id].role = "model"
             /\ \E t \in DOMAIN chatTurns :
                   /\ chatTurns[t].message = id
                   /\ streamEnds(t, TRUE)]_vars

\* C24: a failure of a turn, at any point, appends the apology as the last
\* message and clears the bot-loading flag; and if streams end or fail, a
\* turn in flight leads to a cleared flag.
FailureAppendsApologyAndReturnsToIdle ==
    /\ [][\A t \in DOMAIN chatTurns :
             streamFails(t) =>
                /\ Len(chatMessages') = Len(chatMessages) + 1
                /\ SubSeq(chatMessages', 1, Len(chatMessages)) = chatMessages
                /\ messageObjects'[chatMessages'[Len(chatMessages')]] =
                      newMessage("model", apology)
                /\ ~isBotLoading']_vars
    /\ (chatTurns # <<>>) ~> (~isBotLoading)

\* a turn has failed after its first fragment: the apology follows the
\* partial reply and the flag is cleared
FailureAppendsApologyAndReturnsToIdleWitness ==
    /\ ~isBotLoading
    /\ chatTurns = <<>>
    /\ Len(chatMessages) >= 2
    /\ messageObjects[chatMessages[Len(chatMessages)]].text = apology
    /\ messageObjects[chatMessages[Len(chatMessages) - 1]].role = "model"
    /\ messageObjects[chatMessages[Len(chatMessages) - 1]].text = <<"a">>

\* C28: when the chat could not be started, the session is absent, the
\* transcript is the one apology of initChat, and no call of sendMessage
\* changes it or starts a turn.
TranscriptWithoutSessionIsInert ==
    ~chatSession =>
        /\ chatMessages = <<1>>
        /\ Len(messageObjects) = 1
        /\ messageObjects[1].role = "model"
        /\ messageObjects[1].text = notStarted
        /\ chatTurns = <<>>
        /\ ~isBotLoading

\* without a session a recipe has been opened and made a favorite, its
\* missing ingredients are on the shopping list, and a button of the recipe
\* view has opened the chat
TranscriptWithoutSessionIsInertWitness ==
    /\ ~chatSession
    /\ isChatOpen
    /\ view = "cooking"
    /\ shoppingList # <<>>
    /\ favoriteRecipes # <<>>

-----------------------------------------------------------------------------
(* Properties of the analysis *)

FencedResponseIsParsedAsItsBody ==
    [][\A tag \in FenceTags : \A body \in ResponseBodies :
          generateContentReturns(textResponse(fenced(tag, body))) =>
             /\ analyzeFridgeAndSuggestRecipes(textResponse(fenced(tag, body))) =
                   analyzeFridgeAndSuggestRecipes(textResponse(body))
             /\ stripFence(fenced(tag, body)) = body]_vars

-----------------------------------------------------------------------------
(* Properties of the stored favorites *)

\* the item is the serialization of a list of recipes
IsSerializedList(item) ==
    item.present /\ \E n \in 0..Cardinality(RecipeUniverse) :
                      \E f \in [1..n -> RecipeUniverse] : item.text = JSONstringify(f)

\* C31: the stored item is always the serialization of the current
\* favorites list, so that loading the page again gives the same list; and
\* a start from a missing or corrupt item is a start with the empty list.
StoredFavoritesAreTheFavorites ==
    /\ favoritesIsArray
    /\ localStorage = storedText(JSONstringify(favoriteRecipes))
    /\ favoritesInitializer(localStorage) = favoriteRecipes
    /\ \A savedFavorites \in StoredItems :
          (~IsSerializedList(savedFavorites) /\ AppInitFrom(savedFavorites))
             => favoriteRecipes = <<>>

-----------------------------------------------------------------------------
(* Properties of the translation requests *)

Front(list) == SubSeq(list, 1, Len(list) - 1)
Last(list) == list[Len(list)]

\* the step has put a new request at the end of the list, possibly after
\* taking an answered one out
RequestIssued(before, after) ==
    /\ after # before
    /\ after # <<>>
    /\ \/ Front(after) = before
       \/ \E i \in DOMAIN before : Front(after) = withoutRequest(before, i)

DetailRequestIssued ==
    /\ RequestIssued(detailRequests, detailRequests')
    /\ Last(detailRequests') = newDetailRequest(Last(detailRequests').lang, selectedRecipe')

ChatRequestIssued == RequestIssued(chatRequests, chatRequests')

\* C32: a step that issues a translation request ends with a selected
\* language of the consumer other than 'en', which is the language of the
\* request; a step that issues one for the chat ends with the chat open.
NoRequestForSourceLanguage ==
    [][/\ DetailRequestIssued =>
             /\ selectedLanguage' # "en"
             /\ Last(detailRequests').lang = selectedLanguage'
       /\ ChatRequestIssued =>
             /\ chatSelectedLanguage' # "en"
             /\ Last(chatRequests').lang = chatSelectedLanguage'
             /\ isChatOpen']_vars

\* both consumers have a request in flight, and the detail view is back on
\* 'en' with its request still in flight
NoRequestForSourceLanguageWitness ==
    /\ DetailShown
    /\ selectedLanguage = "en"
    /\ detailRequests # <<>>
    /\ Last(detailRequests).live
    /\ chatRequests # <<>>
    /\ isChatOpen

-----------------------------------------------------------------------------
(* Properties of a failed analysis *)

\* the state of the application that is not about the upload
OutsideTheUpload ==
    <<favoriteRecipes, localStorage, shoppingList, activeFilters, activeTab,
      searchQuery, selectedRecipe, ingredientAvailability, detailVars, chatVars>>

\* C33: an upload whose analysis fails changes view, error, isLoading,
\* recipes and uploadedImage only: its start and its failure leave favorites,
\* shopping list, filters and chat untouched, and the failure ends with
\* isLoading false.
FailedAnalysisChangesUploadStateOnly ==
    [][/\ (\E file \in Files : handleImageUpload(file)) => UNCHANGED OutsideTheUpload
       /\ \A response \in UploadResponses :
             (/\ ~analyzeFridgeAndSuggestRecipes(response).resolved
              /\ generateContentReturns(response)) =>
                 /\ UNCHANGED OutsideTheUpload
                 /\ ~isLoading'
                 /\ view' = "upload"
                 /\ error' # nullString]_vars

\* an analysis has failed in an application that holds a favorite, a
\* shopping list, a filter and a chat with a question
FailedAnalysisChangesUploadStateOnlyWitness ==
    /\ view = "upload"
    /\ error # nullString
    /\ uploadedImage # nullString
    /\ ~isLoading
    /\ favoriteRecipes # <<>>
    /\ shoppingList # <<>>
    /\ activeFilters # <<>>
    /\ Len(chatMessages) > 1

-----------------------------------------------------------------------------
(* Properties of the message texts *)

\* C34: the text of a user message never changes once the message exists;
\* fragments of a reply go to the model message of their turn only.
UserMessageTextIsFinal ==
    [][\A id \in DOMAIN messageObjects :
          messageObjects[id].role = "user" =>
             messageObjects'[id].text = messageObjects[id].text]_vars

-----------------------------------------------------------------------------
(* Properties of the ingredient availability *)

\* positions of the ingredients of the recipe marked unavailable
UnavailablePositions ==
    {i \in DOMAIN selectedRecipe.ingredients :
        ~ingredientAvailability[selectedRecipe.ingredients[i].name]}

\* C35: selecting a language and receiving a translation leave every
\* availability value as it is, and 'add missing to shopping list' adds the
\* original names of the ingredients marked unavailable, in recipe order.
AvailabilityIsKeyedByOriginalName ==
    [][/\ (\/ \E lang \in LanguageInputs : setSelectedLanguage(lang)
           \/ \E i \in DOMAIN detailRequests, batch \in Batches :
                 \E parsed \in DetailReplies(detailRequests[i], batch) :
                    translationBatchReturns(i, batch, parsed))
             => UNCHANGED ingredientAvailability
       /\ handleAddMissingIngredients =>
             shoppingList' =
                addItems(shoppingList,
                         NamesOf(SubsequenceAt(selectedRecipe.ingredients,
                                               UnavailablePositions)))]_vars

\* the ingredients are displayed in translation, a check box has been
\* changed, and the shopping list holds a name
AvailabilityIsKeyedByOriginalNameWitness ==
    /\ DetailShown
    /\ selectedLanguage # "en"
    /\ selectedLanguage \in DOMAIN translatedContent
    /\ NamesOf(displayedIngredients) # NamesOf(selectedRecipe.ingredients)
    /\ ingredientAvailability # initialAvailability(selectedRecipe)
    /\ UnavailablePositions # {}
    /\ shoppingList # <<>>

-----------------------------------------------------------------------------
(* Properties of the translating flag *)

\* C36: while the detail view is shown, isTranslating is true exactly when
\* a translation request of this view is in flight.
TranslatingIffRequestInFlight ==
    DetailShown =>
       (isTranslating <=> \E i \in DOMAIN detailRequests : detailRequests[i].live)

-----------------------------------------------------------------------------
(* Properties of the reset *)

\* resetApp has run after the analysis in flight was started: the image of
\* that upload has been cleared again
ResetDuringAnalysis == uploadPc = "awaiting" /\ uploadedImage = nullString

\* C37: after a reset during an analysis no step, the completion of that
\* analysis included, changes the view or the recipe set.
ResetOutlastsPendingAnalysis ==
    [][ResetDuringAnalysis => (view' = "upload" /\ recipes' = <<>>)]_vars

-----------------------------------------------------------------------------
(* Properties of the chat translation effect *)

\* a step of the user or of a reply stream
TranscriptOrSettingsChange ==
    \/ openChat
    \/ closeChat
    \/ \E lang \in LanguageInputs : setChatLanguage(lang)
    \/ \E message \in UserInputs : handleSubmit(message)
    \/ \E t \in DOMAIN chatTurns, chunk \in ChunkTexts : streamChunk(t, chunk)
    \/ \E t \in DOMAIN chatTurns, grounded \in BOOLEAN : streamEnds(t, grounded)
    \/ \E t \in DOMAIN chatTurns : streamFails(t)

\* C38: when from some moment on neither the user nor a reply stream
\* changes anything, then from some moment on the chat issues no translation
\* request, whatever the translation service answers.
ChatTranslationSettles ==
    <>[][~TranscriptOrSettingsChange]_vars => <>[][~ChatRequestIssued]_vars

-----------------------------------------------------------------------------
(* Properties of the translation cache *)

\* every text of the entry filed under lang is a text of the recipe or its
\* translation into lang
EntryIsOf(entry, lang) ==
    /\ \A k \in DOMAIN entry.ingredients :
          entry.ingredients[k].name \in
             {selectedRecipe.ingredients[k].name,
              translatedName(lang, selectedRecipe.ingredients[k].name)}
    /\ \A k \in DOMAIN entry.instructions :
          entry.instructions[k] \in
             {selectedRecipe.instructions[k],
              translatedStep(lang, selectedRecipe.instructions[k])}

\* C39: a returning request changes the cache under its own language only,
\* also when another language is selected by then, and every entry holds
\* texts of the language it is filed under.
ResultIsFiledUnderRequestedLanguage ==
    /\ [](DetailShown =>
            \A lang \in DOMAIN translatedContent :
               EntryIsOf(translatedContent[lang], lang))
    /\ [][\A i \in DOMAIN detailRequests, batch \in Batches :
            \A parsed \in FailedOrTranslated(detailRequests[i], batch) :
               translationBatchReturns(i, batch, parsed) =>
                  \A lang \in DOMAIN translatedContent' :
                     lang # detailRequests[i].lang =>
                        /\ lang \in DOMAIN translatedContent
                        /\ translatedContent'[lang] = translatedContent[lang]]_vars

\* the result for 'es' is in the cache while 'fr' is selected and still
\* requested
ResultIsFiledUnderRequestedLanguageWitness ==
    /\ DetailShown
    /\ selectedLanguage = "fr"
    /\ DOMAIN translatedContent = {"es"}
    /\ NamesOf(translatedContent["es"].ingredients) # NamesOf(selectedRecipe.ingredients)
    /\ \E i \in DOMAIN detailRequests :
          detailRequests[i].live /\ detailRequests[i].lang = "fr"

-----------------------------------------------------------------------------
(* Properties of the cooking steps *)

NoCommandWord(spoken) ==
    /\ ~strIncludes(toLowerCase(trim(spoken)), Next_)
    /\ ~strIncludes(toLowerCase(trim(spoken)), Previous)
    /\ ~strIncludes(toLowerCase(trim(spoken)), Back)

\* C40: in the detail view currentStep is a position of the displayed
\* instructions; an utterance without a command word leaves it unchanged,
\* and so do 'next' at the last step and 'previous' at step 0.
CurrentStepStaysInRange ==
    /\ [](DetailShown =>
            (0 <= currentStep /\ currentStep <= Len(displayedInstructions) - 1))
    /\ [][\A spoken \in Utterances :
            (/\ recognitionResult(spoken)
             /\ \/ NoCommandWord(spoken)
                \/ spoken = Previous /\ currentStep = 0
                \/ /\ spoken = <<"N", "e", "x", "t", " ">>
                   /\ currentStep = Len(displayedInstructions) - 1)
               => currentStep' = currentStep]_vars

====
